---- MODULE Spec2Model ----
(***************************************************************************)
(* Model of the NHL +EV betting finder (totqro/nhllines): the similarity   *)
(* model (model.py), the EV / edge engine (ev_calculator.py) and the odds  *)
(* helpers they use (odds_fetcher.py).                                     *)
(*                                                                         *)
(* Numbers: Python floats are modelled as exact rationals [n, d] in lowest *)
(* terms with d > 0, so equalities such as p + (1 - p) = 1 are statements  *)
(* about the arithmetic the code performs, free of rounding noise.         *)
(* Python dicts are functions/records; a missing key is a key outside the  *)
(* DOMAIN.  None is the empty sequence, a present value x is <<x>>.        *)
(* A Python call ends either by returning a value or by raising.           *)
(***************************************************************************)
EXTENDS Integers, Sequences, FiniteSets, TLC

VARIABLES pc, op, args, ret, run

vars == <<pc, op, args, ret, run>>

----------------------------------------------------------------------------
(* Exact rational arithmetic *)

Abs(x) == IF x < 0 THEN -x ELSE x

RECURSIVE GCD(_, _)
GCD(a, b) == IF b = 0 THEN a ELSE GCD(b, a % b)

\* n/d (d # 0) in lowest terms with a positive denominator
Normalized(n, d) ==
    LET g == GCD(Abs(n), Abs(d))
        s == IF d < 0 THEN -1 ELSE 1
    IN  [n |-> (s * n) \div g, d |-> (s * d) \div g]

\* the rational n/d (d # 0); numerator and denominator are computed once
R(n, d) == CHOOSE r \in {Normalized(nn, dd) : nn \in {n}, dd \in {d}} : TRUE

RInt(k) == [n |-> k, d |-> 1]
Zero == RInt(0)
One == RInt(1)
Half == R(1, 2)

RAdd(x, y) ==
    LET g == GCD(x.d, y.d)
    IN  R(x.n * (y.d \div g) + y.n * (x.d \div g), (x.d \div g) * y.d)
RSub(x, y) ==
    LET g == GCD(x.d, y.d)
    IN  R(x.n * (y.d \div g) - y.n * (x.d \div g), (x.d \div g) * y.d)
RMul(x, y) ==
    LET g1 == GCD(Abs(x.n), y.d)
        g2 == GCD(Abs(y.n), x.d)
    IN  R((x.n \div g1) * (y.n \div g2), (x.d \div g2) * (y.d \div g1))
\* x / y for y # 0; callers model the ZeroDivisionError of y = 0 themselves
RDiv(x, y) == RMul(x, R(y.d, y.n))
RNeg(x) == [n |-> -x.n, d |-> x.d]
RAbs(x) == [n |-> Abs(x.n), d |-> x.d]
RLt(x, y) ==
    LET g == GCD(x.d, y.d)
    IN  x.n * (y.d \div g) < y.n * (x.d \div g)
RLe(x, y) ==
    LET g == GCD(x.d, y.d)
    IN  x.n * (y.d \div g) <= y.n * (x.d \div g)
RMin(x, y) == IF RLt(y, x) THEN y ELSE x
RMax(x, y) == IF RLt(x, y) THEN y ELSE x
RIn01(x) == RLe(Zero, x) /\ RLe(x, One)

----------------------------------------------------------------------------
(* Python values *)

None == <<>>
Some(x) == <<x>>
\* truthiness of "a dict or None"
IsSet(e) == e # None
Val(e) == e[1]

\* dict.get(key, default)
Get(dict, key, default) == IF key \in DOMAIN dict THEN dict[key] ELSE default

Return(v) == [outcome |-> "return", value |-> v]
Raise(e) == [outcome |-> "raise", exc |-> e]
Returned(o) == o.outcome = "return"
Raised(o) == o.outcome = "raise"

----------------------------------------------------------------------------
(* odds_fetcher.py: price conversions (defined for american # 0) *)

\* variant: a negative price converted like a positive one
american_to_decimal_NegativeAsPositive(american) == RAdd(One, R(Abs(american), 100))

\* decimal odds of an American price
american_to_decimal(american) ==
    IF american > 0
    THEN RAdd(One, R(american, 100))
    ELSE RAdd(One, R(100, Abs(american)))

\* variant: a negative price given the probability of the opposite side
american_to_implied_prob_NegativeInverted(american) ==
    IF american < 0
    THEN R(100, Abs(american) + 100)
    ELSE R(100, american + 100)

\* implied probability of an American price
american_to_implied_prob(american) ==
    IF american < 0
    THEN R(Abs(american), Abs(american) + 100)
    ELSE R(100, american + 100)

----------------------------------------------------------------------------
(* ev_calculator.py *)

\* (mutation: a zero stake silently gives roi 0 instead of raising)
calculate_ev_ZeroStakeDefaulted(true_prob, american_odds, stake) ==
    IF american_odds = 0 THEN Raise("ZeroDivisionError")
    ELSE
    LET decimal_odds == american_to_decimal(american_odds)
        implied_prob == american_to_implied_prob(american_odds)
        profit_if_win == RMul(stake, RSub(decimal_odds, One))
        ev == RSub(RMul(true_prob, profit_if_win), RMul(RSub(One, true_prob), stake))
    IN  Return([ev |-> ev,
                roi |-> IF stake = Zero THEN Zero ELSE RDiv(ev, stake),
                edge |-> RSub(true_prob, implied_prob),
                true_prob |-> true_prob,
                implied_prob |-> implied_prob,
                american_odds |-> american_odds,
                decimal_odds |-> decimal_odds,
                stake |-> stake,
                profit_if_win |-> profit_if_win,
                loss_if_lose |-> stake,
                is_positive_ev |-> RLt(Zero, ev)])

\* calculate_ev: 100 / abs(0) and ev / 0 raise ZeroDivisionError
calculate_ev(true_prob, american_odds, stake) ==
    IF american_odds = 0 THEN Raise("ZeroDivisionError")
    ELSE
    LET decimal_odds == american_to_decimal(american_odds)
        implied_prob == american_to_implied_prob(american_odds)
        profit_if_win == RMul(stake, RSub(decimal_odds, One))
        loss_if_lose == stake
        ev == RSub(RMul(true_prob, profit_if_win),
                   RMul(RSub(One, true_prob), loss_if_lose))
    IN  IF stake = Zero THEN Raise("ZeroDivisionError")
        ELSE Return([ev |-> ev,
                     roi |-> RDiv(ev, stake),
                     edge |-> RSub(true_prob, implied_prob),
                     true_prob |-> true_prob,
                     implied_prob |-> implied_prob,
                     american_odds |-> american_odds,
                     decimal_odds |-> decimal_odds,
                     stake |-> stake,
                     profit_if_win |-> profit_if_win,
                     loss_if_lose |-> loss_if_lose,
                     is_positive_ev |-> RLt(Zero, ev)])

\* a recommendation: the bet's own fields, then **ev_data, then confidence
Bet(game_label, bet_type, pick, book, odds, ev_data, confidence) ==
    [game |-> game_label, bet_type |-> bet_type, pick |-> pick, book |-> book,
     odds |-> odds, ev |-> ev_data.ev, roi |-> ev_data.roi, edge |-> ev_data.edge,
     true_prob |-> ev_data.true_prob, implied_prob |-> ev_data.implied_prob,
     american_odds |-> ev_data.american_odds, decimal_odds |-> ev_data.decimal_odds,
     stake |-> ev_data.stake, profit_if_win |-> ev_data.profit_if_win,
     loss_if_lose |-> ev_data.loss_if_lose,
     is_positive_ev |-> ev_data.is_positive_ev, confidence |-> confidence]

\* the pick text: who or what is backed, the kind of line, and the point the
\* text quotes (the entry's point; none for a moneyline)
Pick(subject, label, entry) ==
    [subject |-> subject, label |-> label,
     point |-> IF IsSet(entry) THEN Some(Val(entry).point) ELSE None]

\* the statements of a function body in order: the first raise ends the call,
\* otherwise the appended bets are concatenated
RECURSIVE Chain(_)
Chain(steps) ==
    IF steps = <<>> THEN Return(<<>>)
    ELSE IF Raised(Head(steps)) THEN Head(steps)
    ELSE LET rest == Chain(Tail(steps))
         IN  IF Raised(rest) THEN rest
             ELSE Return(Head(steps).value \o rest.value)

\* list.sort(key=lambda b: b["ev"], reverse=True): stable, EV descending
\* variant: a candidate placed ahead of the earlier ones of its own EV
RECURSIVE InsertByEv_AheadOfEqual(_, _)
InsertByEv_AheadOfEqual(b, sorted) ==
    IF sorted = <<>> THEN <<b>>
    ELSE IF RLe(Head(sorted).ev, b.ev) THEN <<b>> \o sorted
    ELSE <<Head(sorted)>> \o InsertByEv_AheadOfEqual(b, Tail(sorted))

RECURSIVE InsertByEv(_, _)
InsertByEv(b, sorted) ==
    IF sorted = <<>> THEN <<b>>
    ELSE IF RLt(Head(sorted).ev, b.ev) THEN <<b>> \o sorted
    ELSE <<Head(sorted)>> \o InsertByEv(b, Tail(sorted))

RECURSIVE SortByEvDesc(_)
SortByEvDesc(bets) ==
    IF bets = <<>> THEN <<>>
    ELSE InsertByEv(bets[Len(bets)], SortByEvDesc(SubSeq(bets, 1, Len(bets) - 1)))

\* (mutation: a missing model_confidence read as full confidence)
ModelConfidence_MissingIsOne(blended_probs) ==
    Get(blended_probs, "model_confidence", One)

\* the confidence read from the blended record
ModelConfidence(blended_probs) == Get(blended_probs, "model_confidence", Zero)

\* the gate: "if confidence < min_confidence: return bets"
GateClosed(blended_probs, min_confidence) ==
    RLt(ModelConfidence(blended_probs), min_confidence)

\* conservative mode raises the minimum edge
EffMinEdge(min_edge, conservative) ==
    IF conservative THEN RMax(min_edge, R(3, 100)) ELSE min_edge

\* variant: an edge equal to max_edge turned away
EdgeAccepted_CapExclusive(edge, min_edge, max_edge) ==
    RLe(min_edge, edge) /\ RLt(edge, max_edge)

\* the acceptance test of a best-price side
EdgeAccepted(edge, min_edge, max_edge) == RLe(min_edge, edge) /\ RLe(edge, max_edge)

\* variant: theScore entries accepted whatever their edge
TheScoreEdgeAccepted_Any(edge, min_edge) == TRUE

\* the acceptance test of a theScore moneyline entry
TheScoreEdgeAccepted(edge, min_edge) == RLe(min_edge, edge)

\* (mutation: spreads evaluated in every mode)
SpreadsEvaluated_Always(conservative) == TRUE

\* spreads are skipped in conservative mode
SpreadsEvaluated(conservative) == ~conservative

\* one "if best_odds[market][side]:" block
BestPriceSide(game_label, bet_type, pick, entry, true_prob, stake, min_edge, max_edge, confidence) ==
    IF ~IsSet(entry) THEN Return(<<>>)
    ELSE LET o == calculate_ev(true_prob, Val(entry).price, stake)
         IN  IF Raised(o) THEN o
             ELSE IF EdgeAccepted(o.value.edge, min_edge, max_edge)
             THEN Return(<<Bet(game_label, bet_type, pick, Val(entry).book,
                              Val(entry).price, o.value, confidence)>>)
             ELSE Return(<<>>)

\* one 'if "ml_x" in thescore:' block
TheScoreSide(game_label, pick, thescore, key, true_prob, stake, min_edge, confidence) ==
    IF key \notin DOMAIN thescore THEN Return(<<>>)
    ELSE LET o == calculate_ev(true_prob, thescore[key], stake)
         IN  IF Raised(o) THEN o
             ELSE IF TheScoreEdgeAccepted(o.value.edge, min_edge)
             THEN Return(<<Bet(game_label, "Moneyline", pick, "thescore",
                              thescore[key], o.value, confidence)>>)
             ELSE Return(<<>>)

evaluate_thescore_odds(game_label, home_team, away_team, blended_probs, best_odds, stake, min_edge) ==
    LET thescore == Get(best_odds, "thescore", <<>>)
        confidence == ModelConfidence(blended_probs)
    IN  IF DOMAIN thescore = {} THEN Return(<<>>)
        ELSE Chain(<<
            TheScoreSide(game_label, Pick(home_team, "ML (theScore)", None), thescore,
                         "ml_home", blended_probs.home_win_prob, stake, min_edge,
                         confidence),
            TheScoreSide(game_label, Pick(away_team, "ML (theScore)", None), thescore,
                         "ml_away", blended_probs.away_win_prob, stake, min_edge,
                         confidence)>>)

evaluate_all_bets(game_label, home_team, away_team, blended_probs, best_odds, stake, min_edge, min_confidence, conservative, max_edge) ==
    LET confidence == ModelConfidence(blended_probs)
        eff == EffMinEdge(min_edge, conservative)
        ml == best_odds.moneyline
        sp == best_odds.spread
        tot == best_odds.total
        Side(bet_type, pick, entry, p) ==
            BestPriceSide(game_label, bet_type, pick, entry, p, stake, eff,
                          max_edge, confidence)
        spreads ==
            IF SpreadsEvaluated(conservative)
            THEN Chain(<<
                Side("Spread", Pick(home_team, "spread", sp.home), sp.home,
                     blended_probs.home_cover_prob),
                Side("Spread", Pick(away_team, "spread", sp.away), sp.away,
                     blended_probs.away_cover_prob)>>)
            ELSE Return(<<>>)
        all == Chain(<<
            Side("Moneyline", Pick(home_team, "ML", None), ml.home,
                 blended_probs.home_win_prob),
            Side("Moneyline", Pick(away_team, "ML", None), ml.away,
                 blended_probs.away_win_prob),
            spreads,
            Side("Total", Pick("Over", "total", tot.over), tot.over,
                 blended_probs.over_prob),
            Side("Total", Pick("Under", "total", tot.under), tot.under,
                 blended_probs.under_prob),
            evaluate_thescore_odds(game_label, home_team, away_team, blended_probs,
                                   best_odds, stake, eff)>>)
    IN  IF GateClosed(blended_probs, min_confidence) THEN Return(<<>>)
        ELSE IF Raised(all) THEN all
        ELSE Return(SortByEvDesc(all.value))

\* variant: the full Kelly fraction scaled without the clamp at zero
kelly_criterion_NoClamp(true_prob, decimal_odds, fraction) ==
    LET b == RSub(decimal_odds, One)
    IN  IF b = Zero THEN Raise("ZeroDivisionError")
        ELSE Return(RMul(RDiv(RSub(RMul(b, true_prob), RSub(One, true_prob)), b),
                         fraction))

\* kelly_criterion: (b*p - q) / b raises ZeroDivisionError when b = 0
kelly_criterion(true_prob, decimal_odds, fraction) ==
    LET b == RSub(decimal_odds, One)
        p == true_prob
        q == RSub(One, p)
    IN  IF b = Zero THEN Raise("ZeroDivisionError")
        ELSE LET full_kelly == RDiv(RSub(RMul(b, p), q), b)
             IN  IF RLe(full_kelly, Zero) THEN Return(Zero)
                 ELSE Return(RMul(full_kelly, fraction))

----------------------------------------------------------------------------
(* model.py *)

\* (mutation: the points-percentage factor without its floor at 0)
PointsPctTerm_NoFloor(cur_home, hist_home, cur_away, hist_away) ==
    RSub(One, RDiv(RAdd(RAbs(RSub(cur_home, hist_home)),
                        RAbs(RSub(cur_away, hist_away))), RInt(2)))

\* factor 7: max(ppct_sim, 0)
PointsPctTerm(cur_home, hist_home, cur_away, hist_away) ==
    RMax(RSub(One, RDiv(RAdd(RAbs(RSub(cur_home, hist_home)),
                             RAbs(RSub(cur_away, hist_away))), RInt(2))),
         Zero)

\* factors 2-5: 1.0 - min(abs(current - hist) / 3.0, 1.0)
GoalsTerm(current, hist) ==
    RSub(One, RMin(RDiv(RAbs(RSub(current, hist)), RInt(3)), One))

\* factor 6: the same-teams bonus as a share of its weight
SameTeamsTerm(hist_game, current_home, current_away) ==
    IF hist_game.home_team = current_home /\ hist_game.away_team = current_away
    THEN One
    ELSE IF hist_game.home_team = current_away /\ hist_game.away_team = current_home
    THEN Half
    ELSE Zero

calculate_similarity(home_stats, away_stats, hist_home_stats, hist_away_stats, h2h, hist_game, current_home, current_away) ==
    LET current_diff == RSub(Get(home_stats, "win_pct", Half),
                             Get(away_stats, "win_pct", Half))
        hist_diff == RSub(Get(hist_home_stats, "win_pct", Half),
                          Get(hist_away_stats, "win_pct", Half))
        quality_sim == RSub(One, RMin(RAbs(RSub(current_diff, hist_diff)), One))
        off_sim == GoalsTerm(Get(home_stats, "avg_gf", RInt(3)),
                             Get(hist_home_stats, "avg_gf", RInt(3)))
        off_sim2 == GoalsTerm(Get(away_stats, "avg_gf", RInt(3)),
                              Get(hist_away_stats, "avg_gf", RInt(3)))
        def_sim == GoalsTerm(Get(home_stats, "avg_ga", RInt(3)),
                             Get(hist_home_stats, "avg_ga", RInt(3)))
        def_sim2 == GoalsTerm(Get(away_stats, "avg_ga", RInt(3)),
                              Get(hist_away_stats, "avg_ga", RInt(3)))
        same == SameTeamsTerm(hist_game, current_home, current_away)
        ppct == PointsPctTerm(Get(home_stats, "points_pct", Half),
                              Get(hist_home_stats, "points_pct", Half),
                              Get(away_stats, "points_pct", Half),
                              Get(hist_away_stats, "points_pct", Half))
        score == RAdd(RMul(RInt(3), quality_sim),
                 RAdd(RMul(RInt(2), off_sim),
                 RAdd(RMul(RInt(2), off_sim2),
                 RAdd(RMul(RInt(2), def_sim),
                 RAdd(RMul(RInt(2), def_sim2),
                 RAdd(RMul(RInt(2), same),
                      RMul(RInt(2), ppct)))))))
        max_score == RInt(3 + 2 + 2 + 2 + 2 + 2 + 2)
    IN  IF RLt(Zero, max_score) THEN RDiv(score, max_score) ELSE Zero

\* team_forms.get(team, {...}) default
DefaultForm == [win_pct |-> Half, avg_gf |-> RInt(3), avg_ga |-> RInt(3)]

\* variant: a team without a standings row or a form counted as having no
\* wins and no goals
TeamStats_AbsentAsZero(team, standings, team_forms) ==
    LET standing == Get(standings, team, <<>>)
        form == Get(team_forms, team, [win_pct |-> Zero, avg_gf |-> Zero, avg_ga |-> Zero])
        Mix(season, recent) == RAdd(RMul(R(4, 10), season), RMul(R(6, 10), recent))
    IN  [win_pct |-> Mix(Get(standing, "win_pct", Zero), Get(form, "win_pct", Half)),
         avg_gf |-> Mix(Get(standing, "goals_for_pg", Zero),
                        Get(form, "avg_gf", RInt(3))),
         avg_ga |-> Mix(Get(standing, "goals_against_pg", Zero),
                        Get(form, "avg_ga", RInt(3))),
         points_pct |-> Get(standing, "points_pct", Zero)]

\* the blended profile of a team: 0.4 * season + 0.6 * recent form
TeamStats(team, standings, team_forms) ==
    LET standing == Get(standings, team, <<>>)
        form == Get(team_forms, team, DefaultForm)
        Mix(season, recent) == RAdd(RMul(R(4, 10), season), RMul(R(6, 10), recent))
    IN  [win_pct |-> Mix(Get(standing, "win_pct", Half), Get(form, "win_pct", Half)),
         avg_gf |-> Mix(Get(standing, "goals_for_pg", RInt(3)),
                        Get(form, "avg_gf", RInt(3))),
         avg_ga |-> Mix(Get(standing, "goals_against_pg", RInt(3)),
                        Get(form, "avg_ga", RInt(3))),
         points_pct |-> Get(standing, "points_pct", Half)]

\* the score find_similar_games gives one historical game
GameSimilarity(game, home_team, away_team, standings, team_forms) ==
    calculate_similarity(TeamStats(home_team, standings, team_forms),
                         TeamStats(away_team, standings, team_forms),
                         TeamStats(game.home_team, standings, team_forms),
                         TeamStats(game.away_team, standings, team_forms),
                         [games |-> 0], game, home_team, away_team)

\* variant: every historical game kept, whatever its similarity
RECURSIVE ScoredGames_NoThreshold(_, _, _, _, _, _)
ScoredGames_NoThreshold(all_games, home_team, away_team, standings, team_forms, min_similarity) ==
    IF all_games = <<>> THEN <<>>
    ELSE <<<<Head(all_games),
             GameSimilarity(Head(all_games), home_team, away_team, standings,
                            team_forms)>>>>
         \o ScoredGames_NoThreshold(Tail(all_games), home_team, away_team, standings,
                                    team_forms, min_similarity)

\* the loop: (game, similarity) for the games at or above the threshold
RECURSIVE ScoredGames(_, _, _, _, _, _)
ScoredGames(all_games, home_team, away_team, standings, team_forms, min_similarity) ==
    IF all_games = <<>> THEN <<>>
    ELSE LET game == Head(all_games)
             similarity == GameSimilarity(game, home_team, away_team, standings,
                                          team_forms)
             rest == ScoredGames(Tail(all_games), home_team, away_team, standings,
                                 team_forms, min_similarity)
         IN  IF RLe(min_similarity, similarity)
             THEN <<<<game, similarity>>>> \o rest
             ELSE rest

\* scored_games.sort(key=lambda x: x[1], reverse=True): stable, descending
RECURSIVE InsertBySimilarity(_, _)
InsertBySimilarity(x, sorted) ==
    IF sorted = <<>> THEN <<x>>
    ELSE IF RLt(Head(sorted)[2], x[2]) THEN <<x>> \o sorted
    ELSE <<Head(sorted)>> \o InsertBySimilarity(x, Tail(sorted))

RECURSIVE SortBySimilarityDesc(_)
SortBySimilarityDesc(scored) ==
    IF scored = <<>> THEN <<>>
    ELSE InsertBySimilarity(scored[Len(scored)],
                            SortBySimilarityDesc(SubSeq(scored, 1, Len(scored) - 1)))

\* scored_games[:n]
Take(seq, n) == SubSeq(seq, 1, IF n < Len(seq) THEN n ELSE Len(seq))

\* variant: the scored games cut to n_similar without sorting them first
find_similar_games_NoSort(home_team, away_team, standings, all_games, team_forms, n_similar, min_similarity) ==
    Take(ScoredGames(all_games, home_team, away_team, standings, team_forms,
                     min_similarity),
         n_similar)

find_similar_games(home_team, away_team, standings, all_games, team_forms, n_similar, min_similarity) ==
    Take(SortBySimilarityDesc(ScoredGames(all_games, home_team, away_team,
                                          standings, team_forms, min_similarity)),
         n_similar)

\* Python's round(x) for a rational x: to the nearest integer, ties to even
RoundHalfEven(x) ==
    LET fl == x.n \div x.d
        twice_rem == 2 * (x.n - fl * x.d)
    IN  IF twice_rem < x.d THEN fl
        ELSE IF twice_rem > x.d THEN fl + 1
        ELSE IF fl % 2 = 0 THEN fl ELSE fl + 1

\* sum(...) of a list of numbers
RECURSIVE SumSeq(_)
SumSeq(seq) == IF seq = <<>> THEN Zero ELSE RAdd(Head(seq), SumSeq(Tail(seq)))

\* sum(1 for x in seq if ...), given the indices that satisfy the condition
Count(indices) == Cardinality(indices)

\* the indices of a list
Idx(seq) == 1..Len(seq)

\* the neutral defaults returned for an empty list
NeutralDefaults ==
    [home_win_prob |-> Half, away_win_prob |-> Half, expected_total |-> RInt(6),
     over_prob |-> Half, under_prob |-> Half, home_cover_prob |-> Half,
     n_games |-> 0, confidence |-> Zero]

\* variant: the sum of the three parts without the 0.95 cap
ConfidenceFromDrivers_Uncapped(top5_avg, high_sim_count, exact_matchups) ==
    RAdd(RMin(Half, RMul(top5_avg, R(55, 100))),
         RAdd(RMin(R(3, 10), R(high_sim_count, 25)),
              RMin(R(2, 10), R(exact_matchups, 5))))

\* variant: the volume part taken off instead of added
ConfidenceFromDrivers_VolumeSubtracted(top5_avg, high_sim_count, exact_matchups) ==
    RMin(R(95, 100),
         RAdd(RSub(RMin(Half, RMul(top5_avg, R(55, 100))),
                   RMin(R(3, 10), R(high_sim_count, 25))),
              RMin(R(2, 10), R(exact_matchups, 5))))

\* the confidence score from its three drivers
ConfidenceFromDrivers(top5_avg, high_sim_count, exact_matchups) ==
    LET quality_conf == RMin(Half, RMul(top5_avg, R(55, 100)))
        volume_conf == RMin(R(3, 10), R(high_sim_count, 25))
        exact_conf == RMin(R(2, 10), R(exact_matchups, 5))
    IN  RMin(R(95, 100), RAdd(quality_conf, RAdd(volume_conf, exact_conf)))

\* average similarity of the first five entries of a non-empty list
Top5Avg(similar_games) ==
    LET top == Take(similar_games, 5)
    IN  RDiv(SumSeq([i \in Idx(top) |-> top[i][2]]), RInt(Len(top)))

\* number of entries with similarity above 0.75
HighSimCount(similar_games) ==
    Count({i \in Idx(similar_games) : RLt(R(3, 4), similar_games[i][2])})

\* number of entries with the same home and away team as the matchup
ExactMatchups(similar_games, home_team, away_team) ==
    Count({i \in Idx(similar_games) :
            /\ similar_games[i][1].home_team = home_team
            /\ similar_games[i][1].away_team = away_team})

\* the confidence score of a non-empty list
Confidence(similar_games, home_team, away_team) ==
    ConfidenceFromDrivers(Top5Avg(similar_games), HighSimCount(similar_games),
                          ExactMatchups(similar_games, home_team, away_team))

\* variant: the neutral half added at full weight
Regress_FullHalf(raw, c) == RAdd(RMul(raw, c), Half)

\* regression to the mean: raw * c + 0.5 * (1 - c)
Regress(raw, c) == RAdd(RMul(raw, c), RMul(Half, RSub(One, c)))

\* goal totals -> share of the games with that total
GoalDistribution(totals) ==
    [t \in {totals[i] : i \in 1..Len(totals)} |->
        R(Cardinality({i \in 1..Len(totals) : totals[i] = t}), Len(totals))]

\* round(expected_total * 2) / 2
DerivedLine(expected_total) == R(RoundHalfEven(RMul(expected_total, RInt(2))), 2)

\* variant: a game exactly on the derived line not counted at all
UnweightedOverProb_PushIgnored(similar_games, line) ==
    LET over_count == Count({i \in Idx(similar_games) :
                            RLt(line, RInt(Get(similar_games[i][1], "total_goals", 0)))})
    IN  RDiv(RInt(over_count), RInt(Len(similar_games)))

\* (over_count + push_count * 0.5) / len(similar_games)
UnweightedOverProb(similar_games, line) ==
    LET over_count == Count({i \in Idx(similar_games) :
                            RLt(line, RInt(Get(similar_games[i][1], "total_goals", 0)))})
        push_count == Count({i \in Idx(similar_games) :
                            RInt(Get(similar_games[i][1], "total_goals", 0)) = line})
    IN  RDiv(RAdd(RInt(over_count), RMul(RInt(push_count), Half)),
             RInt(Len(similar_games)))

estimate_probabilities(similar_games, home_team, away_team, total_line, spread_line) ==
    IF similar_games = <<>> THEN NeutralDefaults
    ELSE
    LET Weight(x) == RMul(x[2], x[2])
        Goals(x) == Get(x[1], "total_goals", 0)
        Diff(x) == Get(x[1], "goal_diff", 0)
        OverShare(x, line) ==
            IF RLt(line, RInt(Goals(x))) THEN Weight(x)
            ELSE IF RInt(Goals(x)) = line THEN RMul(Weight(x), Half)
            ELSE Zero
        CoverShare(x, line) ==
            IF RLt(Zero, RAdd(RInt(Diff(x)), line)) THEN Weight(x)
            ELSE IF RAdd(RInt(Diff(x)), line) = Zero THEN RMul(Weight(x), Half)
            ELSE Zero
        I == Idx(similar_games)
        sum_weight == SumSeq([i \in I |-> Weight(similar_games[i])])
        weighted_home_wins ==
            SumSeq([i \in I |-> IF Get(similar_games[i][1], "home_win", FALSE)
                                THEN Weight(similar_games[i]) ELSE Zero])
        weighted_total_goals ==
            SumSeq([i \in I |-> RMul(Weight(similar_games[i]),
                                     RInt(Goals(similar_games[i])))])
        weighted_overs ==
            IF total_line = None THEN Zero
            ELSE SumSeq([i \in I |-> OverShare(similar_games[i], Val(total_line))])
        weighted_home_covers ==
            IF spread_line = None THEN Zero
            ELSE SumSeq([i \in I |-> CoverShare(similar_games[i], Val(spread_line))])
        total_weight == IF sum_weight = Zero THEN One ELSE sum_weight
        home_win_prob == RDiv(weighted_home_wins, total_weight)
        expected_total == RDiv(weighted_total_goals, total_weight)
        used_line ==
            IF total_line = None THEN DerivedLine(expected_total)
            ELSE Val(total_line)
        over_prob ==
            IF total_line = None THEN UnweightedOverProb(similar_games, used_line)
            ELSE RDiv(weighted_overs, total_weight)
        home_cover_prob ==
            IF spread_line # None THEN RDiv(weighted_home_covers, total_weight)
            ELSE Half
        avg_similarity ==
            RDiv(SumSeq([i \in I |-> similar_games[i][2]]), RInt(Len(similar_games)))
        confidence == Confidence(similar_games, home_team, away_team)
        regressed_home_prob == Regress(home_win_prob, confidence)
        regressed_over_prob == Regress(over_prob, confidence)
        spread_conf == RMul(confidence, R(6, 10))
        regressed_cover_prob == Regress(home_cover_prob, spread_conf)
    IN  [home_win_prob |-> regressed_home_prob,
         away_win_prob |-> RSub(One, regressed_home_prob),
         expected_total |-> expected_total,
         over_prob |-> regressed_over_prob,
         under_prob |-> RSub(One, regressed_over_prob),
         home_cover_prob |-> regressed_cover_prob,
         away_cover_prob |-> RSub(One, regressed_cover_prob),
         total_line |-> Some(used_line),
         spread_line |-> spread_line,
         n_games |-> Len(similar_games),
         avg_similarity |-> avg_similarity,
         confidence |-> confidence,
         raw_home_win_prob |-> home_win_prob,
         raw_over_prob |-> over_prob,
         goal_distribution |->
            GoalDistribution([i \in 1..Len(similar_games) |-> Goals(similar_games[i])])]

\* (mutation: the market share not reduced by the model's share)
Blend_MarketUnscaled(effective_weight, model_value, market_value) ==
    RAdd(RMul(effective_weight, model_value), market_value)

\* variant: the weight on the market value and its complement on the model
Blend_WeightOnMarket(effective_weight, model_value, market_value) ==
    RAdd(RMul(RSub(One, effective_weight), model_value),
         RMul(effective_weight, market_value))

\* effective_weight * model + (1 - effective_weight) * market
Blend(effective_weight, model_value, market_value) ==
    RAdd(RMul(effective_weight, model_value),
         RMul(RSub(One, effective_weight), market_value))

blend_model_and_market(model_probs, market_probs, model_weight) ==
    LET confidence == Get(model_probs, "confidence", Zero)
        effective_weight == RMul(model_weight, confidence)
        home == Blend(effective_weight, model_probs.home_win_prob,
                      Get(market_probs, "home_win_prob", Half))
        over == Blend(effective_weight, model_probs.over_prob,
                      Get(market_probs, "over_prob", Half))
        cover == Blend(effective_weight, Get(model_probs, "home_cover_prob", Half),
                       Get(market_probs, "spread_home_cover_prob", Half))
    IN  [home_win_prob |-> home, away_win_prob |-> RSub(One, home),
         over_prob |-> over, under_prob |-> RSub(One, over),
         home_cover_prob |-> cover, away_cover_prob |-> RSub(One, cover),
         model_confidence |-> confidence,
         effective_model_weight |-> effective_weight]

----------------------------------------------------------------------------
(* odds_fetcher.py: best prices and market consensus of one game.
   game_data.bookmakers is the dict in iteration order: a sequence of
   <<bk_key, bk_data>>; bk_data.markets maps a market key to its outcomes.
   Prices are non-zero. *)

\* TEAM_NAME_TO_ABBREV, the rows of the teams used here
TEAM_NAME_TO_ABBREV ==
    [name \in {"Toronto Maple Leafs", "Montreal Canadiens", "Boston Bruins",
               "Ottawa Senators"} |->
        IF name = "Toronto Maple Leafs" THEN "TOR"
        ELSE IF name = "Montreal Canadiens" THEN "MTL"
        ELSE IF name = "Boston Bruins" THEN "BOS"
        ELSE "OTT"]

team_name_to_abbrev(name) == Get(TEAM_NAME_TO_ABBREV, name, name)

\* the side an outcome is booked under by get_best_odds
SideOf(market, outcome, home_team) ==
    IF market = "totals"
    THEN (IF outcome.name = "Over" THEN "over" ELSE "under")
    ELSE (IF outcome.name = home_team THEN "home" ELSE "away")

\* the key of a side in a bookmaker's book_odds
OddsKey(market, side) ==
    IF market = "h2h" THEN (IF side = "home" THEN "ml_home" ELSE "ml_away")
    ELSE IF market = "spreads"
    THEN (IF side = "home" THEN "spread_home" ELSE "spread_away")
    ELSE (IF side = "over" THEN "total_over" ELSE "total_under")

\* the outcomes of one market in the order the loops visit them
RECURSIVE MarketQuotes(_, _)
MarketQuotes(bookmakers, market) ==
    IF bookmakers = <<>> THEN <<>>
    ELSE LET bk_key == Head(bookmakers)[1]
             markets == Head(bookmakers)[2].markets
             here == IF market \in DOMAIN markets
                     THEN [i \in 1..Len(markets[market]) |->
                            [book |-> bk_key, outcome |-> markets[market][i]]]
                     ELSE <<>>
         IN  here \o MarketQuotes(Tail(bookmakers), market)

\* a best-price entry as get_best_odds builds it
BestEntry(price, book) ==
    Some([price |-> price, book |-> book,
          decimal |-> american_to_decimal(price),
          implied_prob |-> american_to_implied_prob(price)])

BestEntryAt(price, point, book) ==
    Some([price |-> price, point |-> point, book |-> book,
          decimal |-> american_to_decimal(price),
          implied_prob |-> american_to_implied_prob(price)])

\* the entry stored for a quote that becomes the best of its side
QuoteEntry(market, quote) ==
    IF market = "h2h" THEN BestEntry(quote.outcome.price, quote.book)
    ELSE BestEntryAt(quote.outcome.price, Get(quote.outcome, "point", Zero),
                     quote.book)

\* variant: the running best replaced by every later quote of the side
RECURSIVE BestQuote_LastQuoted(_, _, _, _)
BestQuote_LastQuoted(quotes, market, side, home_team) ==
    IF quotes = <<>> THEN None
    ELSE LET current_best == BestQuote_LastQuoted(SubSeq(quotes, 1, Len(quotes) - 1),
                                                  market, side, home_team)
             quote == quotes[Len(quotes)]
         IN  IF SideOf(market, quote.outcome, home_team) # side THEN current_best
             ELSE QuoteEntry(market, quote)

\* the running best of a side: replaced only by a strictly higher price
RECURSIVE BestQuote(_, _, _, _)
BestQuote(quotes, market, side, home_team) ==
    IF quotes = <<>> THEN None
    ELSE LET current_best == BestQuote(SubSeq(quotes, 1, Len(quotes) - 1), market,
                                       side, home_team)
             quote == quotes[Len(quotes)]
         IN  IF SideOf(market, quote.outcome, home_team) # side THEN current_best
             ELSE IF current_best = None
                     \/ quote.outcome.price > Val(current_best).price
             THEN QuoteEntry(market, quote)
             ELSE current_best

\* book_odds of one bookmaker: the last outcome booked under each key
BookOdds(markets, home_team) ==
    LET Sides(market) ==
            IF market \in DOMAIN markets
            THEN {SideOf(market, markets[market][i], home_team) :
                    i \in 1..Len(markets[market])}
            ELSE {}
        Slots == {<<market, side>> \in {"h2h", "spreads", "totals"}
                                        \X {"home", "away", "over", "under"} :
                    side \in Sides(market)}
        LastOf(slot) ==
            LET hits == {i \in 1..Len(markets[slot[1]]) :
                            SideOf(slot[1], markets[slot[1]][i], home_team) = slot[2]}
                last == CHOOSE i \in hits : \A j \in hits : j <= i
            IN  markets[slot[1]][last]
        SlotOf(key) == CHOOSE slot \in Slots : OddsKey(slot[1], slot[2]) = key
    IN  [key \in {OddsKey(slot[1], slot[2]) : slot \in Slots} |->
            IF SlotOf(key)[1] = "h2h" THEN LastOf(SlotOf(key)).price
            ELSE [price |-> LastOf(SlotOf(key)).price,
                  point |-> Get(LastOf(SlotOf(key)), "point", Zero)]]

\* best["thescore"] before theScore is met: three empty dicts
ThescorePlaceholder == [k \in {"moneyline", "spread", "total"} |-> <<>>]

get_best_odds(game_data) ==
    LET bks == game_data.bookmakers
        home_team == game_data.home_team
        Best(market, side) == BestQuote(MarketQuotes(bks, market), market, side,
                                        home_team)
        thescore_at == {i \in 1..Len(bks) : bks[i][1] = "thescore"}
    IN  [home_team |-> game_data.home_team,
         away_team |-> game_data.away_team,
         commence_time |-> game_data.commence_time,
         moneyline |-> [home |-> Best("h2h", "home"), away |-> Best("h2h", "away")],
         spread |-> [home |-> Best("spreads", "home"),
                     away |-> Best("spreads", "away")],
         total |-> [over |-> Best("totals", "over"),
                    under |-> Best("totals", "under")],
         thescore |->
            IF thescore_at = {} THEN ThescorePlaceholder
            ELSE BookOdds(bks[CHOOSE i \in thescore_at : TRUE][2].markets, home_team),
         all_books |->
            [k \in {bks[i][1] : i \in 1..Len(bks)} |->
                BookOdds(bks[CHOOSE i \in 1..Len(bks) : bks[i][1] = k][2].markets,
                         home_team)]]

\* the side an outcome counts for in the consensus
ConsensusSide(market, outcome, home_team) ==
    IF market = "totals"
    THEN (IF outcome.name = "Over" THEN "over"
          ELSE IF outcome.name = "Under" THEN "under" ELSE outcome.name)
    ELSE (IF outcome.name = home_team THEN "home" ELSE "away")

\* probs of one bookmaker's market: side -> implied probability of the last
\* outcome of that side
MarketProbs(outcomes, market, home_team) ==
    LET sides == {ConsensusSide(market, outcomes[i], home_team) :
                    i \in 1..Len(outcomes)}
        LastPrice(side) ==
            LET hits == {i \in 1..Len(outcomes) :
                            ConsensusSide(market, outcomes[i], home_team) = side}
            IN  outcomes[CHOOSE i \in hits : \A j \in hits : j <= i].price
    IN  [side \in sides |-> american_to_implied_prob(LastPrice(side))]

RECURSIVE SumOfSides(_, _)
SumOfSides(probs, sides) ==
    IF sides = {} THEN Zero
    ELSE LET side == CHOOSE x \in sides : TRUE
         IN  RAdd(probs[side], SumOfSides(probs, sides \ {side}))

\* the no-vig shares of one side, one per bookmaker that quotes it
RECURSIVE NoVigShares(_, _, _, _)
NoVigShares(bookmakers, market, side, home_team) ==
    IF bookmakers = <<>> THEN <<>>
    ELSE LET markets == Head(bookmakers)[2].markets
             rest == NoVigShares(Tail(bookmakers), market, side, home_team)
         IN  IF market \notin DOMAIN markets THEN rest
             ELSE LET probs == MarketProbs(markets[market], market, home_team)
                      total_prob == SumOfSides(probs, DOMAIN probs)
                  IN  IF RLt(Zero, total_prob) /\ side \in DOMAIN probs
                      THEN <<RDiv(probs[side], total_prob)>> \o rest
                      ELSE rest

\* sum(xs) / len(xs) if xs else 0.5
MeanOrHalf(xs) == IF xs = <<>> THEN Half ELSE RDiv(SumSeq(xs), RInt(Len(xs)))

\* the first point met in a market (home outcomes only for spreads)
FirstPoint(quotes, market, home_team) ==
    LET hits == {i \in 1..Len(quotes) :
                    /\ "point" \in DOMAIN quotes[i].outcome
                    /\ market = "spreads" =>
                         ConsensusSide(market, quotes[i].outcome, home_team) = "home"}
    IN  IF hits = {} THEN None
        ELSE Some(quotes[CHOOSE i \in hits : \A j \in hits : i <= j].outcome.point)

get_consensus_no_vig_odds(game_data) ==
    LET bks == game_data.bookmakers
        home_team == game_data.home_team
        ml_home_probs == NoVigShares(bks, "h2h", "home", home_team)
        ml_away_probs == NoVigShares(bks, "h2h", "away", home_team)
        total_over_probs == NoVigShares(bks, "totals", "over", home_team)
        spread_home_probs == NoVigShares(bks, "spreads", "home", home_team)
    IN  [home_win_prob |-> MeanOrHalf(ml_home_probs),
         away_win_prob |-> MeanOrHalf(ml_away_probs),
         over_prob |-> MeanOrHalf(total_over_probs),
         under_prob |-> IF total_over_probs = <<>> THEN Half
                        ELSE RSub(One, MeanOrHalf(total_over_probs)),
         spread_home_cover_prob |-> MeanOrHalf(spread_home_probs),
         total_line |-> FirstPoint(MarketQuotes(bks, "totals"), "totals", home_team),
         spread_line |-> FirstPoint(MarketQuotes(bks, "spreads"), "spreads",
                                    home_team),
         n_books_ml |-> Len(ml_home_probs),
         n_books_total |-> Len(total_over_probs),
         n_books_spread |-> Len(spread_home_probs)]

----------------------------------------------------------------------------
(* Inputs of the EV engine *)

\* defaults of evaluate_all_bets
DefaultStake == One
DefaultMinEdge == R(2, 100)
DefaultMinConfidence == R(3, 10)
DefaultMaxEdge == R(15, 100)

MoneylineEntries == {None, BestEntry(-110, "pinnacle"), BestEntry(150, "thescore")}
HomeSpreadEntries == {None, BestEntryAt(150, R(-3, 2), "fanduel")}
AwaySpreadEntries == {None, BestEntryAt(150, R(3, 2), "fanduel")}
OverEntries == {None, BestEntryAt(-110, R(11, 2), "draftkings")}
UnderEntries == {None, BestEntryAt(100, R(11, 2), "betmgm")}

\* best_odds["thescore"]: the book's own prices, or the placeholder left when
\* the book quotes nothing
TheScoreDicts ==
    {[k \in D |-> IF k = "ml_home" THEN 150 ELSE -110] : D \in SUBSET {"ml_home", "ml_away"}}
    \cup {ThescorePlaceholder}

BestOddsInputs ==
    {[moneyline |-> [home |-> mh, away |-> ma],
      spread |-> [home |-> sh, away |-> sa],
      total |-> [over |-> to, under |-> tu],
      thescore |-> ts] :
        mh \in MoneylineEntries, ma \in MoneylineEntries,
        sh \in HomeSpreadEntries, sa \in AwaySpreadEntries,
        to \in OverEntries, tu \in UnderEntries, ts \in TheScoreDicts}

HomeWinProbs == {R(2, 5), R(11, 20), R(3, 4)}
\* <<over_prob, home_cover_prob>>
OverCoverProbs ==
    {<<R(11, 20), R(9, 20)>>, <<R(7, 10), R(4, 5)>>, <<R(9, 20), R(11, 20)>>,
     <<R(2, 5), Half>>}
Confidences == {R(1, 5), R(2, 5), R(3, 5)}

\* a blended record; conf = None leaves model_confidence out
BlendedRecord(hw, ov, cv, conf) ==
    LET base == [home_win_prob |-> hw, away_win_prob |-> RSub(One, hw),
                 over_prob |-> ov, under_prob |-> RSub(One, ov),
                 home_cover_prob |-> cv, away_cover_prob |-> RSub(One, cv)]
    IN  IF conf = None THEN base
        ELSE base @@ [model_confidence |-> Val(conf)]

BlendedInputs ==
    {BlendedRecord(hw, oc[1], oc[2], conf) :
        hw \in HomeWinProbs, oc \in OverCoverProbs,
        conf \in {None} \cup {Some(c) : c \in Confidences}}

Stakes == {Zero, One}

KellyProbs == {Zero, R(1, 4), Half, R(11, 20), R(3, 4), One}
KellyOdds == {R(1, 2), R(9, 10), One, R(3, 2), R(21, 11), R(5, 2)}
KellyFractions == {Zero, R(1, 4), Half, One}

EvProbs == {Zero, R(1, 4), R(2, 5), Half, R(11, 21), R(11, 20), R(5, 7), R(3, 4), One}
EvPrices == {-250, -110, -100, 0, 100, 150, 300}
EvStakes == {Zero, Half, One, RInt(2)}

----------------------------------------------------------------------------
(* Inputs of the similarity model *)

\* longest historical collection given to find_similar_games
MaxHist == 2
\* longest (game, similarity) list given to estimate_probabilities
MaxGames == 2

\* the sequences over S of length at most n
SeqsUpTo(S, n) == UNION {[1..k -> S] : k \in 0..n}

\* a completed game as fetch_season_games records it
FinalGame(id, home, away, home_score, away_score) ==
    [game_id |-> id, home_team |-> home, away_team |-> away,
     home_score |-> home_score, away_score |-> away_score,
     total_goals |-> home_score + away_score,
     home_win |-> home_score > away_score,
     goal_diff |-> home_score - away_score]

Profiles ==
    {<<>>,
     [win_pct |-> Half, avg_gf |-> RInt(3), avg_ga |-> RInt(3), points_pct |-> Half],
     [win_pct |-> R(7, 10), avg_gf |-> R(7, 2), avg_ga |-> R(5, 2),
      points_pct |-> R(13, 20)],
     [win_pct |-> RInt(5), avg_gf |-> RInt(12), avg_ga |-> RInt(-4),
      points_pct |-> RInt(-3)],
     [win_pct |-> R(1, 5), avg_gf |-> RInt(2)]}

\* <<home, away>> of the current and of the historical game
Matchups == {<<"TOR", "MTL">>, <<"MTL", "TOR">>, <<"BOS", "MTL">>}

StandingsTables ==
    {<<>>,
     [t \in {"TOR"} |-> [win_pct |-> R(3, 5), points_pct |-> R(13, 20)]],
     [t \in {"TOR", "MTL", "BOS"} |->
        IF t = "TOR" THEN [win_pct |-> R(3, 5), points_pct |-> R(13, 20),
                           goals_for_pg |-> R(7, 2), goals_against_pg |-> R(5, 2)]
        ELSE IF t = "MTL" THEN [win_pct |-> R(2, 5), points_pct |-> R(9, 20),
                                goals_for_pg |-> R(5, 2), goals_against_pg |-> R(7, 2)]
        ELSE [win_pct |-> R(3, 5), points_pct |-> R(3, 5),
              goals_for_pg |-> R(7, 2), goals_against_pg |-> RInt(3)]]}

FormsTables ==
    {<<>>,
     [t \in {"TOR", "MTL", "BOS"} |->
        IF t = "TOR" THEN [win_pct |-> R(7, 10), avg_gf |-> RInt(4), avg_ga |-> RInt(2),
                           games |-> 10]
        ELSE IF t = "MTL" THEN [win_pct |-> R(3, 10), avg_gf |-> RInt(2),
                                avg_ga |-> RInt(4), games |-> 10]
        ELSE [win_pct |-> R(7, 10), avg_gf |-> RInt(4), avg_ga |-> RInt(3),
              games |-> 10]]}

HistGames ==
    {FinalGame(1, "TOR", "MTL", 4, 3), FinalGame(2, "MTL", "TOR", 2, 3),
     FinalGame(3, "BOS", "MTL", 1, 4), FinalGame(4, "BOS", "OTT", 3, 3)}

EstGames ==
    {FinalGame(1, "TOR", "MTL", 4, 3), FinalGame(2, "MTL", "TOR", 4, 2),
     FinalGame(3, "BOS", "MTL", 1, 4)}

Similarities == {Zero, R(3, 5), R(4, 5)}

\* find_similar_games hands over its list most similar first
SortedBySimilarity(sg) == \A i \in 1..(Len(sg) - 1) : RLe(sg[i + 1][2], sg[i][2])

Repeat(x, n) == [i \in 1..n |-> x]

\* longest run of equally similar games in a long list
MaxRun == 4

\* an earlier meeting of the same pairing and a game of other teams
RunGames == {FinalGame(1, "TOR", "MTL", 4, 3), FinalGame(3, "BOS", "MTL", 1, 4)}

\* long lists: a run of close games followed by a run of less close ones
LongLists ==
    {Repeat(<<g1, s1>>, n1) \o Repeat(<<g2, s2>>, n2) :
        g1 \in RunGames, g2 \in RunGames, s1 \in {R(4, 5), One},
        s2 \in {R(3, 5), R(4, 5)}, n1 \in 0..MaxRun, n2 \in 0..MaxRun}

SimilarLists ==
    {sg \in SeqsUpTo(EstGames \X Similarities, MaxGames) : SortedBySimilarity(sg)}
        \cup LongLists

TotalLines == {None, Some(R(11, 2)), Some(RInt(6))}
SpreadLines == {None, Some(R(-3, 2)), Some(RInt(-1))}

\* model estimates handed to the blender; the away/under values are the
\* complements or not, the cover value and the confidence may be missing
ModelEstimates ==
    {[k \in {"home_win_prob", "away_win_prob", "over_prob", "under_prob"} \cup extra |->
        IF k = "home_win_prob" THEN hw
        ELSE IF k = "away_win_prob" THEN aw
        ELSE IF k = "over_prob" THEN ov
        ELSE IF k = "under_prob" THEN RSub(One, ov)
        ELSE IF k = "home_cover_prob" THEN R(7, 10)
        ELSE conf] :
        hw \in {Zero, R(3, 5), One}, aw \in {R(2, 5), R(9, 10)},
        ov \in {R(1, 4), One}, conf \in {Zero, Half, R(19, 20), One},
        extra \in SUBSET {"home_cover_prob", "confidence"}}

MarketConsensuses ==
    {[k \in {"away_win_prob"} \cup present |->
        IF k = "home_win_prob" THEN hw
        ELSE IF k = "away_win_prob" THEN R(9, 10)
        ELSE IF k = "over_prob" THEN R(2, 5)
        ELSE One] :
        hw \in {Zero, R(11, 20), One},
        present \in SUBSET {"home_win_prob", "over_prob", "spread_home_cover_prob"}}

ModelWeights == {Zero, R(35, 100), One}

----------------------------------------------------------------------------
(* nhl_data.py: recent form of a team *)

\* team_games.sort(key=lambda g: g["date"], reverse=True): stable, newest first
RECURSIVE InsertByDate(_, _)
InsertByDate(g, sorted) ==
    IF sorted = <<>> THEN <<g>>
    ELSE IF Head(sorted).date < g.date THEN <<g>> \o sorted
    ELSE <<Head(sorted)>> \o InsertByDate(g, Tail(sorted))

RECURSIVE SortByDateDesc(_)
SortByDateDesc(games) ==
    IF games = <<>> THEN <<>>
    ELSE InsertByDate(games[Len(games)],
                      SortByDateDesc(SubSeq(games, 1, Len(games) - 1)))

get_team_recent_form(team, all_games, n) ==
    LET Involves(g) == g.home_team = team \/ g.away_team = team
        recent == Take(SortByDateDesc(SelectSeq(all_games, Involves)), n)
        Won(g) == IF g.home_team = team THEN Get(g, "home_win", FALSE)
                  ELSE ~Get(g, "home_win", FALSE)
        For(g) == IF g.home_team = team THEN g.home_score ELSE g.away_score
        Against(g) == IF g.home_team = team THEN g.away_score ELSE g.home_score
        wins == Count({i \in Idx(recent) : Won(recent[i])})
        goals_for == SumSeq([i \in Idx(recent) |-> RInt(For(recent[i]))])
        goals_against == SumSeq([i \in Idx(recent) |-> RInt(Against(recent[i]))])
        n_games == Len(recent)
    IN  IF recent = <<>>
        THEN [win_pct |-> Half, avg_gf |-> RInt(3), avg_ga |-> RInt(3), games |-> 0]
        ELSE [win_pct |-> R(wins, n_games),
              avg_gf |-> RDiv(goals_for, RInt(n_games)),
              avg_ga |-> RDiv(goals_against, RInt(n_games)),
              games |-> n_games]

----------------------------------------------------------------------------
(* main.py: run_analysis.  The locals of a run are the fields of the
   variable run; pc is the position in the function. *)

\* defaults of run_analysis and of the functions it calls with defaults
DefaultNSimilar == 50
DefaultMinSimilarity == R(55, 100)
DefaultModelWeight == R(35, 100)
FormGames == 10
TopN == 15

\* f"{away} @ {home}"
GameLabel(away, home) == <<away, "@", home>>

\* the games of today: today's UTC date, or tomorrow's before 10:00 UTC
StartsToday(game_data) ==
    \/ game_data.commence_time.day = 0
    \/ (game_data.commence_time.day = 1 /\ game_data.commence_time.hour < 10)

\* one pass of the loop over odds_games; each assignment of the loop body
\* binds its value once, in the order of the code
AnalyzeOddsGame(game_data, standings, all_games, team_forms, stake, min_edge, n_similar, conservative) ==
    LET home == team_name_to_abbrev(game_data.home_team)
        away == team_name_to_abbrev(game_data.away_team)
        game_label == GameLabel(away, home)
        TotalLine(best_odds) ==
            IF IsSet(best_odds.total.over)
            THEN Some(Val(best_odds.total.over).point) ELSE None
        SpreadLine(best_odds) ==
            IF IsSet(best_odds.spread.home)
            THEN Some(Val(best_odds.spread.home).point) ELSE None
    IN  IF home \notin DOMAIN standings \/ away \notin DOMAIN standings
        THEN [skipped |-> TRUE, game_bets |-> Return(<<>>), analysis |-> <<>>]
        ELSE CHOOSE step \in UNION { UNION { UNION {
                {[skipped |-> FALSE,
                  game_bets |-> game_bets,
                  analysis |->
                    [game |-> game_label, home |-> home, away |-> away,
                     model_probs |-> model_probs, market_probs |-> market_probs,
                     blended_probs |-> blended, n_similar |-> Len(similar),
                     n_bets |-> IF Returned(game_bets) THEN Len(game_bets.value)
                                ELSE 0]] :
                    game_bets \in {evaluate_all_bets(game_label, home, away, blended,
                                       best_odds, stake, min_edge,
                                       DefaultMinConfidence, conservative,
                                       DefaultMaxEdge)}} :
                    blended \in {blend_model_and_market(model_probs, market_probs,
                                                        DefaultModelWeight)}} :
                    model_probs \in {estimate_probabilities(similar, home, away,
                                        TotalLine(best_odds), SpreadLine(best_odds))}} :
                    best_odds \in {get_best_odds(game_data)},
                    market_probs \in {get_consensus_no_vig_odds(game_data)},
                    similar \in {find_similar_games(home, away, standings, all_games,
                                    team_forms, n_similar, DefaultMinSimilarity)}} : TRUE

\* variant: only the home team is looked for in the standings
AnalyzeScheduledGame_HomeOnly(game, standings, all_games, team_forms, n_similar) ==
    LET home == game.home_team
        away == game.away_team
    IN  IF home \notin DOMAIN standings
        THEN [skipped |-> TRUE, analysis |-> <<>>]
        ELSE CHOOSE step \in UNION {
                {[skipped |-> FALSE,
                  analysis |-> [game |-> GameLabel(away, home), home |-> home,
                                away |-> away, model_probs |-> model_probs]] :
                    model_probs \in {estimate_probabilities(similar, home, away,
                                                            None, None)}} :
                    similar \in {find_similar_games(home, away, standings, all_games,
                                    team_forms, n_similar, DefaultMinSimilarity)}} : TRUE

\* one pass of the loop over today's schedule (no odds)
AnalyzeScheduledGame(game, standings, all_games, team_forms, n_similar) ==
    LET home == game.home_team
        away == game.away_team
    IN  IF home \notin DOMAIN standings \/ away \notin DOMAIN standings
        THEN [skipped |-> TRUE, analysis |-> <<>>]
        ELSE CHOOSE step \in UNION {
                {[skipped |-> FALSE,
                  analysis |-> [game |-> GameLabel(away, home), home |-> home,
                                away |-> away, model_probs |-> model_probs]] :
                    model_probs \in {estimate_probabilities(similar, home, away,
                                                            None, None)}} :
                    similar \in {find_similar_games(home, away, standings, all_games,
                                    team_forms, n_similar, DefaultMinSimilarity)}} : TRUE

\* variant: all_bets = game_bets, the earlier games' candidates dropped
Extend_Overwrite(all_bets, game_bets) == game_bets

\* all_bets.extend(game_bets)
Extend(all_bets, game_bets) == all_bets \o game_bets

\* format_recommendations: sorts all_bets in place (unless empty) and reports
\* the first top_n of them
format_recommendations(all_bets, top_n) ==
    IF all_bets = <<>> THEN [all_bets |-> <<>>, shown |-> <<>>]
    ELSE CHOOSE report \in {[all_bets |-> sorted, shown |-> Take(sorted, top_n)] :
                                sorted \in {SortByEvDesc(all_bets)}} : TRUE

----------------------------------------------------------------------------
(* Inputs of a run: what the fetches return *)

\* most matchups in one odds feed
MaxMatchups == 2

StrongRecord ==
    [win_pct |-> R(3, 5), points_pct |-> R(13, 20), goals_for_pg |-> R(7, 2),
     goals_against_pg |-> R(5, 2)]
WeakRecord ==
    [win_pct |-> R(2, 5), points_pct |-> R(9, 20), goals_for_pg |-> R(5, 2),
     goals_against_pg |-> R(7, 2)]

\* fetch_standings(): two evenly matched pairs of teams
RunStandingsTables ==
    {[t \in {"TOR", "MTL", "BOS", "OTT"} |->
        IF t \in {"TOR", "BOS"} THEN StrongRecord ELSE WeakRecord]}

\* a completed game as fetch_season_games() lists it (oldest day first)
DatedGame(date, id, home, away, home_score, away_score) ==
    FinalGame(id, home, away, home_score, away_score) @@ [date |-> date]

\* fetch_season_games(): nothing, or one earlier meeting of each pair
RunHistories ==
    {<<>>,
     <<DatedGame(1, 1, "TOR", "MTL", 4, 2), DatedGame(2, 2, "BOS", "OTT", 4, 2)>>}

Outcome(name, price) == [name |-> name, price |-> price]
OutcomeAt(name, price, point) == [name |-> name, price |-> price, point |-> point]

\* the bookmakers of a parsed game: pinnacle quotes moneyline and totals,
\* theScore a better home moneyline and the puck line
Bookmakers(home_full, away_full) ==
    <<<<"pinnacle",
        [name |-> "Pinnacle",
         markets |->
            [k \in {"h2h", "totals"} |->
                IF k = "h2h"
                THEN <<Outcome(home_full, 100), Outcome(away_full, 100)>>
                ELSE <<OutcomeAt("Over", -110, R(11, 2)),
                       OutcomeAt("Under", -110, R(11, 2))>>]]>>,
      <<"thescore",
        [name |-> "theScore Bet",
         markets |->
            [k \in {"h2h", "spreads"} |->
                IF k = "h2h"
                THEN <<Outcome(home_full, 110), Outcome(away_full, -110)>>
                ELSE <<OutcomeAt(home_full, 150, R(-3, 2)),
                       OutcomeAt(away_full, -150, R(3, 2))>>]]>>>>

\* one entry of parse_odds(); commence_time as days after today and UTC hour
GameData(id, day, hour, home_full, away_full) ==
    [game_id |-> id, commence_time |-> [day |-> day, hour |-> hour],
     home_team |-> home_full, away_team |-> away_full,
     bookmakers |-> Bookmakers(home_full, away_full)]

\* bookmakers that quote the total at different lines: pinnacle has the
\* better Under at 5.5, theScore the better Over at 6.5
SplitLineBookmakers(home_full, away_full) ==
    <<<<"pinnacle",
        [name |-> "Pinnacle",
         markets |->
            [k \in {"h2h", "totals"} |->
                IF k = "h2h"
                THEN <<Outcome(home_full, 100), Outcome(away_full, 100)>>
                ELSE <<OutcomeAt("Over", -120, R(11, 2)),
                       OutcomeAt("Under", 100, R(11, 2))>>]]>>,
      <<"thescore",
        [name |-> "theScore Bet",
         markets |->
            [k \in {"h2h", "spreads", "totals"} |->
                IF k = "h2h"
                THEN <<Outcome(home_full, 110), Outcome(away_full, -110)>>
                ELSE IF k = "spreads"
                THEN <<OutcomeAt(home_full, 150, R(-3, 2)),
                       OutcomeAt(away_full, -150, R(3, 2))>>
                ELSE <<OutcomeAt("Over", 100, R(13, 2)),
                       OutcomeAt("Under", -120, R(13, 2))>>]]>>>>

\* today's two games, one of tomorrow night, one whose home team the name
\* table does not list, and Boston's game as quoted at split lines
RunGameData ==
    {GameData(1, 0, 23, "Toronto Maple Leafs", "Montreal Canadiens"),
     GameData(2, 1, 0, "Boston Bruins", "Ottawa Senators"),
     GameData(3, 1, 23, "Montreal Canadiens", "Boston Bruins"),
     GameData(4, 0, 20, "Utah Mammoth", "Ottawa Senators"),
     [GameData(2, 1, 0, "Boston Bruins", "Ottawa Senators") EXCEPT
        !.bookmakers = SplitLineBookmakers("Boston Bruins", "Ottawa Senators")]}

\* parse_odds(fetch_nhl_odds()): distinct games in any order
OddsFeeds ==
    {feed \in SeqsUpTo(RunGameData, MaxMatchups) :
        \A i, j \in 1..Len(feed) : feed[i].game_id = feed[j].game_id => i = j}

\* fetch_todays_games(): the schedule without odds; the last one has a game
\* of a team the standings do not have
TodaysSchedules ==
    {<<>>,
     <<[date |-> 0, home_team |-> "TOR", away_team |-> "MTL"],
       [date |-> 0, home_team |-> "BOS", away_team |-> "OTT"]>>,
     <<[date |-> 0, home_team |-> "OTT", away_team |-> "UTA"],
       [date |-> 0, home_team |-> "TOR", away_team |-> "MTL"]>>}

RunStakes == {Zero, One}

\* games given to get_team_recent_form, and the teams asked about (Utah has
\* played none of them)
FormHistGames ==
    {DatedGame(1, 1, "TOR", "MTL", 4, 2), DatedGame(2, 2, "BOS", "OTT", 1, 3),
     DatedGame(1, 3, "MTL", "TOR", 3, 3)}
FormTeams == {"TOR", "OTT", "UTA"}

\* most bookmakers quoting one game
MaxBooks == 3

\* the markets one bookmaker may quote on Toronto (home) against Montreal:
\* books differ in price and in the line they quote, and may leave a market
\* or a side out
QuotedBooks ==
    {<<"pinnacle",
       [name |-> "Pinnacle",
        markets |->
            [k \in {"h2h", "totals"} |->
                IF k = "h2h"
                THEN <<Outcome("Toronto Maple Leafs", -110),
                       Outcome("Montreal Canadiens", 100)>>
                ELSE <<OutcomeAt("Over", -110, R(11, 2)),
                       OutcomeAt("Under", -110, R(11, 2))>>]]>>,
     <<"thescore",
       [name |-> "theScore Bet",
        markets |->
            [k \in {"h2h", "spreads", "totals"} |->
                IF k = "h2h"
                THEN <<Outcome("Toronto Maple Leafs", 110),
                       Outcome("Montreal Canadiens", -120)>>
                ELSE IF k = "spreads"
                THEN <<OutcomeAt("Toronto Maple Leafs", 150, R(-3, 2)),
                       OutcomeAt("Montreal Canadiens", -170, R(3, 2))>>
                ELSE <<OutcomeAt("Over", 120, R(13, 2)),
                       OutcomeAt("Under", -140, R(13, 2))>>]]>>,
     <<"fanduel",
       [name |-> "FanDuel",
        markets |->
            [k \in {"h2h", "spreads"} |->
                IF k = "h2h"
                THEN <<Outcome("Montreal Canadiens", -100),
                       Outcome("Toronto Maple Leafs", -120)>>
                ELSE <<OutcomeAt("Montreal Canadiens", 240, R(-3, 2)),
                       OutcomeAt("Toronto Maple Leafs", -300, R(3, 2))>>]]>>,
     <<"betmgm",
       [name |-> "BetMGM",
        markets |->
            [k \in {"totals"} |->
                <<OutcomeAt("Over", -105, R(11, 2)),
                  OutcomeAt("Under", -125, RInt(6))>>]]>>,
     <<"draftkings",
       [name |-> "DraftKings",
        markets |->
            [k \in {"h2h"} |-> <<Outcome("Toronto Maple Leafs", 110)>>]]>>,
     <<"bovada",
       [name |-> "Bovada",
        markets |->
            [k \in {"h2h", "spreads"} |->
                IF k = "h2h"
                THEN <<Outcome("Toronto Maple Leafs", 105),
                       Outcome("Montreal Canadiens", -125)>>
                ELSE <<OutcomeAt("Toronto Maple Leafs", 155, R(-3, 2)),
                       OutcomeAt("Montreal Canadiens", -175, R(3, 2))>>]]>>}

\* game_data["bookmakers"]: distinct bookmakers in the order of the feed
BookLists ==
    {bks \in SeqsUpTo(QuotedBooks, MaxBooks) :
        \A i, j \in 1..Len(bks) : bks[i] = bks[j] => i = j}

\* one parsed game with the bookmakers given
QuotedGame(bookmakers) ==
    [game_id |-> 1, commence_time |-> [day |-> 0, hour |-> 23],
     home_team |-> "Toronto Maple Leafs", away_team |-> "Montreal Canadiens",
     bookmakers |-> bookmakers]

----------------------------------------------------------------------------
(* The calls *)

Init ==
    /\ pc = "idle"
    /\ op = "none"
    /\ args = <<>>
    /\ ret = [outcome |-> "none"]
    /\ run = <<>>

Call_calculate_ev ==
    /\ pc = "idle"
    /\ \E p \in EvProbs, a \in EvPrices, st \in EvStakes :
        /\ args' = [true_prob |-> p, american_odds |-> a, stake |-> st]
        /\ ret' = calculate_ev(p, a, st)
    /\ op' = "calculate_ev"
    /\ pc' = "done"
    /\ UNCHANGED run

Call_evaluate_all_bets ==
    /\ pc = "idle"
    /\ \E bp \in BlendedInputs, bo \in BestOddsInputs, st \in Stakes,
          cons \in BOOLEAN :
        /\ args' = [game_label |-> "MTL @ TOR", home_team |-> "TOR",
                    away_team |-> "MTL", blended_probs |-> bp, best_odds |-> bo,
                    stake |-> st, min_edge |-> DefaultMinEdge,
                    min_confidence |-> DefaultMinConfidence,
                    conservative |-> cons, max_edge |-> DefaultMaxEdge]
        /\ ret' = evaluate_all_bets("MTL @ TOR", "TOR", "MTL", bp, bo, st,
                                    DefaultMinEdge, DefaultMinConfidence, cons,
                                    DefaultMaxEdge)
    /\ op' = "evaluate_all_bets"
    /\ pc' = "done"
    /\ UNCHANGED run

Call_kelly_criterion ==
    /\ pc = "idle"
    /\ \E p \in KellyProbs, d \in KellyOdds, f \in KellyFractions :
        /\ args' = [true_prob |-> p, decimal_odds |-> d, fraction |-> f]
        /\ ret' = kelly_criterion(p, d, f)
    /\ op' = "kelly_criterion"
    /\ pc' = "done"
    /\ UNCHANGED run

Call_calculate_similarity ==
    /\ pc = "idle"
    /\ \E hs \in Profiles, as \in Profiles, hhs \in Profiles, has \in Profiles,
          cur \in Matchups, hist \in Matchups :
        /\ args' = [home_stats |-> hs, away_stats |-> as, hist_home_stats |-> hhs,
                    hist_away_stats |-> has, h2h |-> [games |-> 0],
                    hist_game |-> FinalGame(1, hist[1], hist[2], 3, 2),
                    current_home |-> cur[1], current_away |-> cur[2]]
        /\ ret' = Return(calculate_similarity(hs, as, hhs, has, [games |-> 0],
                            FinalGame(1, hist[1], hist[2], 3, 2), cur[1], cur[2]))
    /\ op' = "calculate_similarity"
    /\ pc' = "done"
    /\ UNCHANGED run

Call_find_similar_games ==
    /\ pc = "idle"
    /\ \E cur \in Matchups, st \in StandingsTables, tf \in FormsTables,
          games \in SeqsUpTo(HistGames, MaxHist), n \in {1, 50},
          ms \in {R(55, 100), R(9, 10)} :
        /\ args' = [home_team |-> cur[1], away_team |-> cur[2], standings |-> st,
                    all_games |-> games, team_forms |-> tf, n_similar |-> n,
                    min_similarity |-> ms]
        /\ ret' = Return(find_similar_games(cur[1], cur[2], st, games, tf, n, ms))
    /\ op' = "find_similar_games"
    /\ pc' = "done"
    /\ UNCHANGED run

Call_estimate_probabilities ==
    /\ pc = "idle"
    /\ \E sg \in SimilarLists, tl \in TotalLines, sl \in SpreadLines :
        /\ args' = [similar_games |-> sg, home_team |-> "TOR", away_team |-> "MTL",
                    total_line |-> tl, spread_line |-> sl]
        /\ ret' = Return(estimate_probabilities(sg, "TOR", "MTL", tl, sl))
    /\ op' = "estimate_probabilities"
    /\ pc' = "done"
    /\ UNCHANGED run

Call_blend_model_and_market ==
    /\ pc = "idle"
    /\ \E mp \in ModelEstimates, mk \in MarketConsensuses, w \in ModelWeights :
        /\ args' = [model_probs |-> mp, market_probs |-> mk, model_weight |-> w]
        /\ ret' = Return(blend_model_and_market(mp, mk, w))
    /\ op' = "blend_model_and_market"
    /\ pc' = "done"
    /\ UNCHANGED run

Call_get_team_recent_form ==
    /\ pc = "idle"
    /\ \E team \in FormTeams, games \in SeqsUpTo(FormHistGames, MaxHist),
          n \in {1, FormGames} :
        /\ args' = [team |-> team, all_games |-> games, n |-> n]
        /\ ret' = Return(get_team_recent_form(team, games, n))
    /\ op' = "get_team_recent_form"
    /\ pc' = "done"
    /\ UNCHANGED run

Call_get_best_odds ==
    /\ pc = "idle"
    /\ \E bks \in BookLists :
        /\ args' = [game_data |-> QuotedGame(bks)]
        /\ ret' = Return(get_best_odds(QuotedGame(bks)))
    /\ op' = "get_best_odds"
    /\ pc' = "done"
    /\ UNCHANGED run

\* run_analysis up to the loop: the fetches, the team forms, the odds feed
\* (a failed fetch turns use_odds off) and the choice of the loop
Run_start ==
    /\ pc = "idle"
    /\ \E stake \in RunStakes, conservative \in BOOLEAN, use_odds \in BOOLEAN,
          standings \in RunStandingsTables, all_games \in RunHistories,
          fetched \in {None} \cup {Some(feed) : feed \in OddsFeeds},
          schedule \in TodaysSchedules :
        LET odds_games ==
                IF use_odds /\ IsSet(fetched)
                THEN SelectSeq(Val(fetched), StartsToday) ELSE <<>>
            with_odds == use_odds /\ IsSet(fetched) /\ odds_games # <<>>
        IN  /\ ~use_odds => fetched = None
            /\ with_odds => schedule = <<>>
            /\ args' = [stake |-> stake, min_edge |-> DefaultMinEdge,
                        use_odds |-> use_odds, n_similar |-> DefaultNSimilar,
                        conservative |-> conservative]
            /\ run' = [standings |-> standings,
                       all_games |-> all_games,
                       team_forms |->
                            [team \in DOMAIN standings |->
                                get_team_recent_form(team, all_games, FormGames)],
                       use_odds |-> use_odds /\ IsSet(fetched),
                       odds_games |-> odds_games,
                       todays_games |-> schedule,
                       next |-> 1,
                       game_bets |-> <<>>,
                       all_bets |-> <<>>,
                       game_analyses |-> <<>>,
                       shown |-> <<>>]
            /\ pc' = IF with_odds THEN "odds_loop" ELSE "schedule_loop"
    /\ op' = "run_analysis"
    /\ UNCHANGED ret

\* one pass of "for game_data in odds_games"
Run_odds_game ==
    /\ pc = "odds_loop"
    /\ run.next <= Len(run.odds_games)
    /\ \E step \in {AnalyzeOddsGame(run.odds_games[run.next], run.standings,
                                     run.all_games, run.team_forms, args.stake,
                                     args.min_edge, args.n_similar,
                                     args.conservative)} :
           IF step.skipped
           THEN /\ run' = [run EXCEPT !.next = @ + 1]
                /\ UNCHANGED <<pc, ret>>
           ELSE IF Raised(step.game_bets)
           THEN /\ pc' = "done"
                /\ ret' = step.game_bets
                /\ UNCHANGED run
           ELSE /\ run' = [run EXCEPT !.next = @ + 1,
                                      !.game_bets = step.game_bets.value,
                                      !.all_bets = Extend(@, step.game_bets.value),
                                      !.game_analyses = Append(@, step.analysis)]
                /\ UNCHANGED <<pc, ret>>
    /\ UNCHANGED <<op, args>>

\* one pass of "for game in todays_games"
Run_scheduled_game ==
    /\ pc = "schedule_loop"
    /\ run.next <= Len(run.todays_games)
    /\ \E step \in {AnalyzeScheduledGame(run.todays_games[run.next],
                                          run.standings, run.all_games,
                                          run.team_forms, args.n_similar)} :
           run' = [run EXCEPT !.next = @ + 1,
                             !.game_analyses = IF step.skipped THEN @
                                               ELSE Append(@, step.analysis)]
    /\ UNCHANGED <<pc, op, args, ret>>

\* after the loop: the report (which sorts all_bets) and the return
Run_report ==
    /\ \/ pc = "odds_loop" /\ run.next > Len(run.odds_games)
       \/ pc = "schedule_loop" /\ run.next > Len(run.todays_games)
    /\ \E report \in {format_recommendations(run.all_bets, TopN)} :
           /\ run' = [run EXCEPT !.all_bets = report.all_bets,
                                 !.shown = report.shown]
           /\ ret' = Return([all_bets |-> report.all_bets,
                             game_analyses |-> run.game_analyses])
    /\ pc' = "done"
    /\ UNCHANGED <<op, args>>

NextModel ==
    \/ Call_calculate_similarity
    \/ Call_find_similar_games
    \/ Call_estimate_probabilities
    \/ Call_blend_model_and_market
    \/ Call_get_team_recent_form

SpecModel == Init /\ [][NextModel]_vars

NextEV == Call_calculate_ev \/ Call_evaluate_all_bets \/ Call_kelly_criterion

SpecEV == Init /\ [][NextEV]_vars

NextOdds == Call_get_best_odds

SpecOdds == Init /\ [][NextOdds]_vars

NextRun == Run_start \/ Run_odds_game \/ Run_scheduled_game \/ Run_report

SpecRun == Init /\ [][NextRun]_vars

Next == NextModel \/ NextEV \/ NextOdds \/ NextRun

Spec == Init /\ [][Next]_vars

----------------------------------------------------------------------------
(* Claims about the EV engine (checked under SpecEV) *)

EvalCalled == pc = "done" /\ op = "evaluate_all_bets"

\* the bets a call of evaluate_all_bets returned (none when it raised)
ReturnedBets == IF EvalCalled /\ Returned(ret) THEN ret.value ELSE <<>>

\* model_confidence of the call's blended record, a missing one counting as 0
ArgConfidence ==
    IF "model_confidence" \in DOMAIN args.blended_probs
    THEN args.blended_probs.model_confidence ELSE Zero

\* the minimum edge the claims expect to be in force
ArgEffMinEdge ==
    IF args.conservative /\ RLt(args.min_edge, R(3, 100)) THEN R(3, 100)
    ELSE args.min_edge

\* some side of the call has a price that the call evaluates
SomeSideEvaluated ==
    \/ IsSet(args.best_odds.moneyline.home)
    \/ IsSet(args.best_odds.moneyline.away)
    \/ (~args.conservative /\ IsSet(args.best_odds.spread.home))
    \/ (~args.conservative /\ IsSet(args.best_odds.spread.away))
    \/ IsSet(args.best_odds.total.over)
    \/ IsSet(args.best_odds.total.under)
    \/ "ml_home" \in DOMAIN args.best_odds.thescore
    \/ "ml_away" \in DOMAIN args.best_odds.thescore

\* C1: every candidate evaluate_all_bets returns, best-price or theScore, has
\* eff_min_edge <= edge <= max_edge.
C1_EdgeWithinBounds ==
    \A i \in 1..Len(ReturnedBets) :
        /\ RLe(ArgEffMinEdge, ReturnedBets[i].edge)
        /\ RLe(ReturnedBets[i].edge, args.max_edge)

\* C2: in conservative mode a matchup whose model_confidence is below
\* max(min_confidence, 0.5) yields no candidates.
C2_ConservativeConfidenceGate ==
    (EvalCalled /\ args.conservative
        /\ RLt(ArgConfidence, RMax(args.min_confidence, Half)))
    => ReturnedBets = <<>>

\* C3: when model_confidence (0 if missing) is below min_confidence the call
\* returns the empty list, and never raises: no EV computation is reached.
C3_GateBeforeEv ==
    (EvalCalled /\ RLt(ArgConfidence, args.min_confidence))
    => ret = Return(<<>>)

\* C3 witness: the confidence is missing, the stake is 0 and sides are priced
\* (so any EV computation would raise), and the call returned the empty list.
C3_Witness ==
    /\ EvalCalled
    /\ "model_confidence" \notin DOMAIN args.blended_probs
    /\ args.stake = Zero
    /\ IsSet(args.best_odds.moneyline.home)
    /\ "ml_away" \in DOMAIN args.best_odds.thescore
    /\ ret = Return(<<>>)

\* C4: in conservative mode no returned candidate is a Spread, while an
\* in-range moneyline or total side is still returned.
C4_NoSpreadWhenConservative ==
    (EvalCalled /\ args.conservative /\ Returned(ret)) =>
        /\ \A i \in 1..Len(ret.value) : ret.value[i].bet_type # "Spread"
        /\ \A side \in {"home", "away"} :
            LET e == args.best_odds.moneyline[side]
                p == IF side = "home" THEN args.blended_probs.home_win_prob
                     ELSE args.blended_probs.away_win_prob
            IN  (/\ ~RLt(ArgConfidence, args.min_confidence)
                 /\ IsSet(e)
                 /\ RLe(ArgEffMinEdge, RSub(p, Val(e).implied_prob))
                 /\ RLe(RSub(p, Val(e).implied_prob), args.max_edge))
                => \E i \in 1..Len(ret.value) :
                    /\ ret.value[i].bet_type = "Moneyline"
                    /\ ret.value[i].book = Val(e).book
                    /\ ret.value[i].true_prob = p
        /\ \A side \in {"over", "under"} :
            LET e == args.best_odds.total[side]
                p == IF side = "over" THEN args.blended_probs.over_prob
                     ELSE args.blended_probs.under_prob
            IN  (/\ ~RLt(ArgConfidence, args.min_confidence)
                 /\ IsSet(e)
                 /\ RLe(ArgEffMinEdge, RSub(p, Val(e).implied_prob))
                 /\ RLe(RSub(p, Val(e).implied_prob), args.max_edge))
                => \E i \in 1..Len(ret.value) :
                    /\ ret.value[i].bet_type = "Total"
                    /\ ret.value[i].true_prob = p

\* C4 witness: a conservative call with both spread sides priced at an edge
\* inside the bounds returned a moneyline and a total candidate and no spread.
C4_Witness ==
    /\ EvalCalled /\ args.conservative /\ Returned(ret)
    /\ IsSet(args.best_odds.spread.home) /\ IsSet(args.best_odds.spread.away)
    /\ EdgeAccepted(RSub(args.blended_probs.home_cover_prob,
                         Val(args.best_odds.spread.home).implied_prob),
                    ArgEffMinEdge, args.max_edge)
    /\ \E i \in 1..Len(ret.value) : ret.value[i].bet_type = "Moneyline"
    /\ \E i \in 1..Len(ret.value) : ret.value[i].bet_type = "Total"
    /\ \A i \in 1..Len(ret.value) : ret.value[i].bet_type # "Spread"

\* C5: kelly_criterion with decimal_odds <= 1 ends in an error and returns no
\* stake fraction.
C5_KellyRejectsOddsAtMostOne ==
    (pc = "done" /\ op = "kelly_criterion" /\ RLe(args.decimal_odds, One))
    => Raised(ret)

\* C6: calculate_ev with stake 0 raises, and evaluate_all_bets with stake 0
\* raises whenever the gate passes and at least one priced side is evaluated.
C6_ZeroStakeIsAnError ==
    /\ (pc = "done" /\ op = "calculate_ev" /\ args.stake = Zero) => Raised(ret)
    /\ (EvalCalled /\ args.stake = Zero
            /\ ~RLt(ArgConfidence, args.min_confidence) /\ SomeSideEvaluated)
        => Raised(ret)

\* C6 witness: the gate passed, the stake is 0, theScore's home moneyline is
\* the only priced side, and the call raised.
C6_Witness ==
    /\ EvalCalled /\ args.stake = Zero
    /\ ~RLt(ArgConfidence, args.min_confidence)
    /\ ~IsSet(args.best_odds.moneyline.home) /\ ~IsSet(args.best_odds.moneyline.away)
    /\ ~IsSet(args.best_odds.total.over) /\ ~IsSet(args.best_odds.total.under)
    /\ ~IsSet(args.best_odds.spread.home) /\ ~IsSet(args.best_odds.spread.away)
    /\ DOMAIN args.best_odds.thescore = {"ml_home"}
    /\ Raised(ret)

----------------------------------------------------------------------------
(* Claims about the similarity model (checked under SpecModel) *)

Called(name) == pc = "done" /\ op = name

\* field k of record r is present and equals v
Has(r, k, v) == k \in DOMAIN r /\ r[k] = v

\* fields a and b of r are present, lie in [0,1] and sum to 1
PairSumsToOne(r, a, b) ==
    /\ a \in DOMAIN r /\ b \in DOMAIN r
    /\ RIn01(r[a]) /\ RIn01(r[b])
    /\ RAdd(r[a], r[b]) = One

\* C7: estimate_probabilities([]) returns the neutral defaults (0.5 for both
\* win sides, both total sides and both cover sides, expected_total 6,
\* confidence 0, n_games 0), and find_similar_games on no games returns [].
C7_NeutralDefaults ==
    /\ (Called("estimate_probabilities") /\ args.similar_games = <<>>) =>
        /\ Has(ret.value, "home_win_prob", Half)
        /\ Has(ret.value, "away_win_prob", Half)
        /\ Has(ret.value, "expected_total", RInt(6))
        /\ Has(ret.value, "over_prob", Half)
        /\ Has(ret.value, "under_prob", Half)
        /\ Has(ret.value, "home_cover_prob", Half)
        /\ Has(ret.value, "away_cover_prob", Half)
        /\ Has(ret.value, "confidence", Zero)
        /\ Has(ret.value, "n_games", 0)
    /\ (Called("find_similar_games") /\ args.all_games = <<>>) => ret.value = <<>>

\* C8: every record estimate_probabilities returns has the six probabilities
\* present and in [0,1], each side pair summing to 1.
C8_EstimatePairsSumToOne ==
    Called("estimate_probabilities") =>
        /\ PairSumsToOne(ret.value, "home_win_prob", "away_win_prob")
        /\ PairSumsToOne(ret.value, "over_prob", "under_prob")
        /\ PairSumsToOne(ret.value, "home_cover_prob", "away_cover_prob")

\* C9: blend_model_and_market returns three side pairs that each lie in [0,1]
\* and sum to 1, whatever away/under values the inputs carry.
C9_BlendPairsSumToOne ==
    Called("blend_model_and_market") =>
        /\ PairSumsToOne(ret.value, "home_win_prob", "away_win_prob")
        /\ PairSumsToOne(ret.value, "over_prob", "under_prob")
        /\ PairSumsToOne(ret.value, "home_cover_prob", "away_cover_prob")

\* C9 witness: the inputs' away values are no complements (0.6 / 0.9 and
\* market away 0.9), a market value is missing, the model has weight, and the
\* blended away value is the complement of the blended home value.
C9_Witness ==
    /\ Called("blend_model_and_market")
    /\ args.model_probs.home_win_prob = R(3, 5)
    /\ args.model_probs.away_win_prob = R(9, 10)
    /\ Has(args.model_probs, "confidence", R(19, 20))
    /\ Has(args.market_probs, "home_win_prob", R(11, 20))
    /\ "over_prob" \notin DOMAIN args.market_probs
    /\ args.model_weight = R(35, 100)
    /\ ret.value.home_win_prob # args.market_probs.home_win_prob
    /\ ret.value.away_win_prob = RSub(One, ret.value.home_win_prob)

\* the two profiles agree on every statistic the score reads
SameProfile(x, y) ==
    /\ Get(x, "win_pct", Half) = Get(y, "win_pct", Half)
    /\ Get(x, "avg_gf", RInt(3)) = Get(y, "avg_gf", RInt(3))
    /\ Get(x, "avg_ga", RInt(3)) = Get(y, "avg_ga", RInt(3))
    /\ Get(x, "points_pct", Half) = Get(y, "points_pct", Half)

\* C10: calculate_similarity is in [0,1], and is exactly 1 when the profiles
\* are identical on both sides and the historical game is the same pairing.
C10_SimilarityInUnitInterval ==
    Called("calculate_similarity") =>
        /\ RIn01(ret.value)
        /\ (/\ SameProfile(args.home_stats, args.hist_home_stats)
            /\ SameProfile(args.away_stats, args.hist_away_stats)
            /\ args.hist_game.home_team = args.current_home
            /\ args.hist_game.away_team = args.current_away)
           => ret.value = One

\* C10 witness: identical out-of-range profiles at home, identical partial
\* profiles away, the same pairing, and a score of exactly 1.
C10_Witness ==
    /\ Called("calculate_similarity")
    /\ Has(args.home_stats, "points_pct", RInt(-3))
    /\ args.hist_home_stats = args.home_stats
    /\ DOMAIN args.away_stats = {"win_pct", "avg_gf"}
    /\ args.hist_away_stats = args.away_stats
    /\ args.hist_game.home_team = args.current_home
    /\ args.hist_game.away_team = args.current_away
    /\ ret.value = One

\* ---- confidence and shrinkage of estimate_probabilities ----

EstimateCalled == Called("estimate_probabilities")

\* the confidence formula written out over the list handed in
ExpectedConfidence(sg, home, away) ==
    LET k == IF Len(sg) < 5 THEN Len(sg) ELSE 5
        top5 == RDiv(SumSeq([i \in 1..k |-> sg[i][2]]), RInt(k))
        high == Cardinality({i \in 1..Len(sg) : RLt(R(3, 4), sg[i][2])})
        exact == Cardinality({i \in 1..Len(sg) :
                    sg[i][1].home_team = home /\ sg[i][1].away_team = away})
        sum == RAdd(RAdd(RMin(Half, RMul(R(55, 100), top5)),
                         RMin(R(3, 10), R(high, 25))),
                    RMin(R(2, 10), R(exact, 5)))
    IN  [sum |-> sum, capped |-> RMin(R(95, 100), sum)]

\* C11: the confidence returned by estimate_probabilities lies in [0, 0.95]
\* for every list, and for a non-empty list it is
\* min(0.95, min(0.5, 0.55 * top5_avg) + min(0.3, high_sim_count / 25)
\*           + min(0.2, exact_matchups / 5)); it never reaches 1.
C11_ConfidenceBounded ==
    EstimateCalled =>
        LET c == ret.value.confidence
            sg == args.similar_games
        IN  /\ RLe(Zero, c)
            /\ RLe(c, R(95, 100))
            /\ RLt(c, One)
            /\ sg # <<>> =>
                 c = ExpectedConfidence(sg, args.home_team, args.away_team).capped

\* the three parts add up to more than 0.95 and the cap cuts the score
C11_Witness ==
    /\ EstimateCalled
    /\ args.similar_games # <<>>
    /\ RLt(R(95, 100),
           ExpectedConfidence(args.similar_games, args.home_team, args.away_team).sum)
    /\ ret.value.confidence = R(95, 100)

\* values of the drivers the confidence is compared at
DriverAverages == {R(k, 10) : k \in 0..10}
DriverCounts == 0..9

\* C12: the confidence never decreases when one of its three drivers (top-5
\* average similarity, number of games above 0.75, number of games with the
\* exact pairing) grows while the other two stay as they are.
C12_ConfidenceMonotone ==
    (EstimateCalled /\ args.similar_games # <<>>) =>
        LET sg == args.similar_games
            t == Top5Avg(sg)
            h == HighSimCount(sg)
            e == ExactMatchups(sg, args.home_team, args.away_team)
            c == ret.value.confidence
        IN  /\ \A t2 \in DriverAverages :
                 /\ RLe(t, t2) => RLe(c, ConfidenceFromDrivers(t2, h, e))
                 /\ RLe(t2, t) => RLe(ConfidenceFromDrivers(t2, h, e), c)
            /\ \A h2 \in DriverCounts :
                 /\ h <= h2 => RLe(c, ConfidenceFromDrivers(t, h2, e))
                 /\ h2 <= h => RLe(ConfidenceFromDrivers(t, h2, e), c)
            /\ \A e2 \in DriverCounts :
                 /\ e <= e2 => RLe(c, ConfidenceFromDrivers(t, h, e2))
                 /\ e2 <= e => RLe(ConfidenceFromDrivers(t, h, e2), c)

\* a list at which each of the three drivers can still raise the confidence
C12_Witness ==
    /\ EstimateCalled
    /\ args.similar_games # <<>>
    /\ LET sg == args.similar_games
           t == Top5Avg(sg)
           h == HighSimCount(sg)
           e == ExactMatchups(sg, args.home_team, args.away_team)
           c == ret.value.confidence
       IN  /\ h > 0
           /\ RLt(c, ConfidenceFromDrivers(One, h, e))
           /\ RLt(c, ConfidenceFromDrivers(t, h + 1, e))
           /\ RLt(ConfidenceFromDrivers(t, h - 1, e), c)
           /\ RLt(c, ConfidenceFromDrivers(t, h, e + 1))

\* the raw share of weighted games in which the home side covers the spread
RawCover(sg, spread_line) ==
    IF spread_line = None THEN Half
    ELSE LET w(i) == RMul(sg[i][2], sg[i][2])
             margin(i) == RAdd(RInt(sg[i][1].goal_diff), Val(spread_line))
             total == SumSeq([i \in 1..Len(sg) |-> w(i)])
             covers == SumSeq([i \in 1..Len(sg) |->
                          IF RLt(Zero, margin(i)) THEN w(i)
                          ELSE IF margin(i) = Zero THEN RMul(w(i), Half)
                          ELSE Zero])
         IN  RDiv(covers, IF total = Zero THEN One ELSE total)

Shrunk(raw, c) == RAdd(RMul(raw, c), RMul(Half, RSub(One, c)))

\* C13: for a non-empty list the record carries the raw win and over values,
\* home_win_prob = raw * c + 0.5 * (1 - c), over_prob likewise, and
\* home_cover_prob is shrunk with 0.6 * c; whenever the returned confidence is
\* 0 the returned home_win_prob, over_prob and home_cover_prob are exactly 0.5.
C13_Shrinkage ==
    EstimateCalled =>
        LET r == ret.value
            c == r.confidence
        IN  /\ args.similar_games # <<>> =>
                 /\ {"raw_home_win_prob", "raw_over_prob"} \subseteq DOMAIN r
                 /\ r.home_win_prob = Shrunk(r.raw_home_win_prob, c)
                 /\ r.over_prob = Shrunk(r.raw_over_prob, c)
                 /\ r.home_cover_prob =
                        Shrunk(RawCover(args.similar_games, args.spread_line),
                               RMul(R(6, 10), c))
            /\ c = Zero =>
                 /\ r.home_win_prob = Half
                 /\ r.over_prob = Half
                 /\ r.home_cover_prob = Half

\* a non-empty list with confidence 0 whose raw over share is not one half
C13_Witness ==
    /\ EstimateCalled
    /\ args.similar_games # <<>>
    /\ ret.value.confidence = Zero
    /\ ret.value.raw_over_prob # Half
    /\ ret.value.over_prob = Half
    /\ ret.value.home_win_prob = Half
    /\ ret.value.home_cover_prob = Half

\* ---- selection of similar games ----

FindCalled == Called("find_similar_games")

\* similarity of the i-th historical game of the call to the matchup
SimOf(i) ==
    GameSimilarity(args.all_games[i], args.home_team, args.away_team,
                   args.standings, args.team_forms)

\* C14: find_similar_games returns (game, similarity) pairs of the games it
\* was given, all at or above min_similarity, in non-increasing order of
\* similarity, as many as min(n_similar, number of games at or above the
\* threshold), and no game left out is strictly more similar than a
\* returned one.
C14_MostSimilarFirst ==
    FindCalled =>
        LET out == ret.value
            I == 1..Len(args.all_games)
            above == {i \in I : RLe(args.min_similarity, SimOf(i))}
            want == IF args.n_similar < Cardinality(above)
                    THEN args.n_similar ELSE Cardinality(above)
        IN  /\ Len(out) = want
            /\ \A k \in 1..Len(out) :
                 /\ RLe(args.min_similarity, out[k][2])
                 /\ \E i \in above : out[k] = <<args.all_games[i], SimOf(i)>>
                 /\ Cardinality({j \in 1..Len(out) : out[j] = out[k]})
                        <= Cardinality({i \in above :
                                out[k] = <<args.all_games[i], SimOf(i)>>})
            /\ \A k \in 1..(Len(out) - 1) : RLe(out[k + 1][2], out[k][2])
            /\ Len(out) > 0 =>
                 LET last == out[Len(out)][2]
                 IN  Cardinality({i \in I : RLt(last, SimOf(i))})
                        = Cardinality({k \in 1..Len(out) : RLt(last, out[k][2])})

\* two games pass the threshold, the later one is the more similar, and with
\* n_similar = 1 only that one is returned
C14_Witness ==
    /\ FindCalled
    /\ args.n_similar = 1
    /\ Len(args.all_games) = 2
    /\ RLe(args.min_similarity, SimOf(1))
    /\ RLt(SimOf(1), SimOf(2))
    /\ ret.value = <<<<args.all_games[2], SimOf(2)>>>>

\* ---- expected value, break-even and stake sizing ----

EvCalled == Called("calculate_ev")

\* the call is within the claims' domain: a probability, a valid American
\* price (magnitude at least 100) and a positive stake
EvInDomain ==
    /\ EvCalled
    /\ RIn01(args.true_prob)
    /\ Abs(args.american_odds) >= 100
    /\ RLt(Zero, args.stake)

\* decimal odds and implied probability of a valid American price
DecimalOf(a) == IF a > 0 THEN R(a + 100, 100) ELSE R(Abs(a) + 100, Abs(a))
ImpliedOf(a) == IF a > 0 THEN R(100, a + 100) ELSE R(Abs(a), Abs(a) + 100)

\* C15: for a probability, a valid American price and a positive stake,
\* calculate_ev returns decimal_odds = 1 + odds/100 (odds > 0) or
\* 1 + 100/|odds| (odds < 0), the matching implied probability,
\* profit_if_win = stake * (decimal_odds - 1),
\* ev = true_prob * profit_if_win - (1 - true_prob) * stake, roi = ev / stake,
\* edge = true_prob - implied_prob and is_positive_ev = (ev > 0); for
\* (0.55, -110, 1) the edge is about 0.0262 and the EV about 0.05.
C15_EvFormulas ==
    EvInDomain =>
        /\ Returned(ret)
        /\ LET v == ret.value
               p == args.true_prob
               d == DecimalOf(args.american_odds)
               profit == RMul(args.stake, RSub(d, One))
               ev == RSub(RMul(p, profit), RMul(RSub(One, p), args.stake))
           IN  /\ v.decimal_odds = d
               /\ v.implied_prob = ImpliedOf(args.american_odds)
               /\ v.profit_if_win = profit
               /\ v.loss_if_lose = args.stake
               /\ v.ev = ev
               /\ v.roi = RDiv(ev, args.stake)
               /\ v.edge = RSub(p, ImpliedOf(args.american_odds))
               /\ v.is_positive_ev = RLt(Zero, ev)
               /\ (p = R(11, 20) /\ args.american_odds = -110 /\ args.stake = One) =>
                    /\ RLt(R(261, 10000), v.edge) /\ RLt(v.edge, R(263, 10000))
                    /\ RLt(R(49, 1000), v.ev) /\ RLt(v.ev, R(51, 1000))
                    /\ v.is_positive_ev

\* the worked example: 0.55 at -110 for a stake of 1
C15_Witness ==
    /\ EvInDomain
    /\ args = [true_prob |-> R(11, 20), american_odds |-> -110, stake |-> One]
    /\ Returned(ret)
    /\ ret.value.ev = R(1, 20)
    /\ ret.value.is_positive_ev

\* C16: decimal_odds * implied_prob = 1 for prices of both signs, so a
\* true probability equal to the implied probability gives edge 0 and EV 0.
C16_BreakEven ==
    EvInDomain =>
        /\ Returned(ret)
        /\ RMul(ret.value.decimal_odds, ret.value.implied_prob) = One
        /\ args.true_prob = ImpliedOf(args.american_odds) =>
             /\ ret.value.edge = Zero
             /\ ret.value.ev = Zero
             /\ ret.value.roi = Zero
             /\ ~ret.value.is_positive_ev

\* break-even at a negative price: 11/21 at -110
C16_Witness ==
    /\ EvInDomain
    /\ args.american_odds = -110
    /\ args.true_prob = R(11, 21)
    /\ Returned(ret)
    /\ ret.value.ev = Zero
    /\ ret.value.edge = Zero

\* C17: calculate_ev never returns a negative edge together with
\* is_positive_ev (EV > 0 exactly when edge > 0), and with min_edge >= 0 no
\* candidate returned by evaluate_all_bets has a negative edge.
C17_NoNegativeEdgePositiveEv ==
    /\ EvInDomain =>
         /\ Returned(ret)
         /\ RLt(Zero, ret.value.ev) <=> RLt(Zero, ret.value.edge)
         /\ ret.value.is_positive_ev <=> RLt(Zero, ret.value.edge)
         /\ ~(RLt(ret.value.edge, Zero) /\ ret.value.is_positive_ev)
    /\ (EvalCalled /\ RLe(Zero, args.min_edge)) =>
         \A i \in 1..Len(ReturnedBets) :
            /\ RLe(Zero, ReturnedBets[i].edge)
            /\ RLt(Zero, ReturnedBets[i].ev) <=> RLt(Zero, ReturnedBets[i].edge)

\* a call that evaluates a theScore entry of negative edge and still returns
\* candidates, none of them that entry
C17_Witness ==
    /\ EvalCalled
    /\ RLe(Zero, args.min_edge)
    /\ Len(ReturnedBets) > 0
    /\ "ml_away" \in DOMAIN args.best_odds.thescore
    /\ RLt(args.blended_probs.away_win_prob,
           ImpliedOf(args.best_odds.thescore.ml_away))
    /\ \A i \in 1..Len(ReturnedBets) : RLt(Zero, ReturnedBets[i].edge)

KellyCalled == Called("kelly_criterion")

\* C18: for a probability p, decimal odds d > 1 and a fraction >= 0,
\* kelly_criterion returns max(0, ((d - 1) p - (1 - p)) / (d - 1)) * fraction,
\* which is never negative; p = 0.5 at d = 1.5 gives 0.
C18_KellyNeverNegative ==
    (/\ KellyCalled
     /\ RIn01(args.true_prob)
     /\ RLt(One, args.decimal_odds)
     /\ RLe(Zero, args.fraction)) =>
        LET p == args.true_prob
            b == RSub(args.decimal_odds, One)
            full == RDiv(RSub(RMul(b, p), RSub(One, p)), b)
        IN  /\ Returned(ret)
            /\ RLe(Zero, ret.value)
            /\ ret.value = RMul(RMax(Zero, full), args.fraction)
            /\ (p = Half /\ args.decimal_odds = R(3, 2)) => ret.value = Zero

\* a negative full Kelly fraction clamped: p = 0.5 at d = 1.5, fraction > 0
C18_Witness ==
    /\ KellyCalled
    /\ args.true_prob = Half
    /\ args.decimal_odds = R(3, 2)
    /\ RLt(Zero, args.fraction)
    /\ ret = Return(Zero)

----------------------------------------------------------------------------
(* run_analysis: ranking and independence of the matchups *)

RunReturned == op = "run_analysis" /\ pc = "done" /\ Returned(ret)

\* EV never rises along the list
NonIncreasingEv(bets) ==
    \A i \in 1..(Len(bets) - 1) : RLe(bets[i + 1].ev, bets[i].ev)

\* the candidates of one EV, in list order
WithEv(bets, v) ==
    LET HasEv(b) == b.ev = v
    IN  SelectSeq(bets, HasEv)

\* after holds the candidates of before, EV descending, those of equal EV in
\* the order they have in before
RankedStable(after, before) ==
    /\ Len(after) = Len(before)
    /\ NonIncreasingEv(after)
    /\ \A i \in 1..Len(before) : WithEv(after, before[i].ev) = WithEv(before, before[i].ev)

\* the place of a candidate in the order evaluate_all_bets discovers them:
\* moneyline home, away, spread home, away, over, under, theScore home, away
DiscoveryRank(b) ==
    LET home == b.game[3]
        side == IF b.pick.subject \in {home, "Over"} THEN 1 ELSE 2
    IN  IF b.pick.label = "ML" THEN side
        ELSE IF b.pick.label = "spread" THEN 2 + side
        ELSE IF b.pick.label = "total" THEN 4 + side
        ELSE 6 + side

\* C19: the candidates of a game come out of evaluate_all_bets in
\* non-increasing EV order with equal EVs in discovery order, and the report
\* of run_analysis leaves all_bets in non-increasing EV order with equal EVs
\* in the order they were collected (a stable sort).
C19_RankedStable ==
    [][/\ (pc = "odds_loop" /\ pc' = "odds_loop" /\ run'.next = run.next + 1) =>
            /\ NonIncreasingEv(run'.game_bets)
            /\ \A i, j \in 1..Len(run'.game_bets) :
                    (i < j /\ run'.game_bets[i].ev = run'.game_bets[j].ev) =>
                        DiscoveryRank(run'.game_bets[i]) < DiscoveryRank(run'.game_bets[j])
       /\ (pc # "done" /\ pc' = "done" /\ Returned(ret') /\ op = "run_analysis") =>
            /\ RankedStable(run'.all_bets, run.all_bets)
            /\ ret'.value.all_bets = run'.all_bets]_vars

\* a finished run whose list has two EVs, a tie inside one game and a tie
\* between two games
C19_Witness ==
    /\ RunReturned
    /\ LET bets == ret.value.all_bets
       IN  /\ \E i, j \in 1..Len(bets) : RLt(bets[j].ev, bets[i].ev)
           /\ \E i, j \in 1..Len(bets) :
                i < j /\ bets[i].ev = bets[j].ev /\ bets[i].game = bets[j].game
           /\ \E i, j \in 1..Len(bets) :
                i < j /\ bets[i].ev = bets[j].ev /\ bets[i].game # bets[j].game

\* f"{away} @ {home}" of an entry of the odds feed
LabelOf(game_data) ==
    GameLabel(team_name_to_abbrev(game_data.away_team),
              team_name_to_abbrev(game_data.home_team))

\* one matchup analysed on its own with the data of the run
Alone(game_data) ==
    AnalyzeOddsGame(game_data, run.standings, run.all_games, run.team_forms,
                    args.stake, args.min_edge, args.n_similar, args.conservative)

\* the candidates of the games in the order given, each game analysed on its
\* own, or the first exception
RECURSIVE Collected(_)
Collected(games) ==
    IF games = <<>> THEN Return(<<>>)
    ELSE LET first == Alone(Head(games))
             rest == Collected(Tail(games))
         IN  IF first.skipped THEN rest
             ELSE IF Raised(first.game_bets) THEN first.game_bets
             ELSE IF Raised(rest) THEN rest
             ELSE Return(first.game_bets.value \o rest.value)

\* the final candidate list of a run over the games in the order given
FinalList(games) ==
    LET collected == Collected(games)
    IN  IF Raised(collected) THEN collected
        ELSE Return(SortByEvDesc(collected.value))

\* every order in which the games of the feed can be processed
Orders(games) ==
    {[i \in 1..Len(games) |-> games[p[i]]] :
        p \in {q \in [1..Len(games) -> 1..Len(games)] :
                    \A i, j \in 1..Len(games) : q[i] = q[j] => i = j}}

\* the candidates of one game, in list order
OfGame(bets, label) ==
    LET IsOfGame(b) == b.game = label
    IN  SelectSeq(bets, IsOfGame)

RunDone == op = "run_analysis" /\ pc = "done"

\* C20 as stated: whatever the order in which the matchups of the feed are
\* processed, the run ends with the identical final candidate list.
C20_IdenticalInAnyOrder ==
    (RunDone /\ run.use_odds) =>
        \A order \in Orders(run.odds_games) :
            IF Raised(ret) THEN FinalList(order) = ret
            ELSE FinalList(order) = Return(ret.value.all_bets)

\* C20 (amended): nothing is carried from one matchup to the next: each
\* analysed matchup has in the result the estimate and, in order, the
\* candidates it gets when analysed on its own, and every processing order
\* ends the same way, with the same candidates game by game and the same EV
\* at every place of the final list; only candidates of equal EV from
\* different matchups may change places, following the processing order.
C20_IndependentUpToTies ==
    (RunDone /\ run.use_odds) =>
        /\ Returned(ret) =>
            /\ \A i \in 1..Len(run.odds_games) :
                LET g == run.odds_games[i]
                    alone == Alone(g)
                IN  IF alone.skipped
                    THEN /\ OfGame(ret.value.all_bets, LabelOf(g)) = <<>>
                         /\ \A k \in 1..Len(ret.value.game_analyses) :
                                ret.value.game_analyses[k].game # LabelOf(g)
                    ELSE /\ Return(OfGame(ret.value.all_bets, LabelOf(g))) = alone.game_bets
                         /\ \E k \in 1..Len(ret.value.game_analyses) :
                                ret.value.game_analyses[k] = alone.analysis
            /\ \A k \in 1..Len(ret.value.all_bets) :
                \E i \in 1..Len(run.odds_games) :
                    ret.value.all_bets[k].game = LabelOf(run.odds_games[i])
        /\ \A order \in Orders(run.odds_games) :
            LET final == FinalList(order)
            IN  IF Raised(ret) THEN final = ret
                ELSE /\ Returned(final)
                     /\ Len(final.value) = Len(ret.value.all_bets)
                     /\ \A k \in 1..Len(ret.value.all_bets) :
                            final.value[k].ev = ret.value.all_bets[k].ev
                     /\ \A i \in 1..Len(run.odds_games) :
                            OfGame(final.value, LabelOf(run.odds_games[i]))
                                = OfGame(ret.value.all_bets, LabelOf(run.odds_games[i]))

\* a finished run over two analysed matchups, each with candidates, where a
\* candidate of the second has the EV of one of the first
C20_Witness ==
    /\ RunDone
    /\ Returned(ret)
    /\ Len(ret.value.game_analyses) >= 2
    /\ \E i, j \in 1..Len(ret.value.all_bets) :
        /\ i < j
        /\ ret.value.all_bets[i].ev = ret.value.all_bets[j].ev
        /\ ret.value.all_bets[i].game # ret.value.all_bets[j].game

----------------------------------------------------------------------------
(* Missing data *)

\* the teams a similarity search looks up
TeamsLookedUp(home_team, away_team, all_games) ==
    {home_team, away_team}
        \cup {all_games[i].home_team : i \in 1..Len(all_games)}
        \cup {all_games[i].away_team : i \in 1..Len(all_games)}

NeutralStanding ==
    [win_pct |-> Half, points_pct |-> Half, goals_for_pg |-> RInt(3),
     goals_against_pg |-> RInt(3)]

NeutralForm == [win_pct |-> Half, avg_gf |-> RInt(3), avg_ga |-> RInt(3)]

\* the table with a neutral row written in for every absent team
FilledIn(table, teams, neutral) ==
    [t \in DOMAIN table \cup teams |-> IF t \in DOMAIN table THEN table[t] ELSE neutral]

\* the consensus with 0.5 written in for every missing probability
MarketFilledIn(market_probs) ==
    [k \in DOMAIN market_probs
            \cup {"home_win_prob", "over_prob", "spread_home_cover_prob"} |->
        IF k \in DOMAIN market_probs THEN market_probs[k] ELSE Half]

\* C22: find_similar_games returns (never raises) what it returns with the
\* neutral row (win_pct 0.5, goals 3.0/3.0, points_pct 0.5) written in for
\* every team absent from standings or team_forms; get_team_recent_form
\* returns win_pct 0.5, avg_gf 3.0, avg_ga 3.0 for a team with no games; and
\* blend_model_and_market returns what it returns with 0.5 written in for
\* every market probability missing from the consensus.
C22_NeutralDefaultsForMissingData ==
    /\ FindCalled =>
        /\ Returned(ret)
        /\ ret.value =
            find_similar_games(args.home_team, args.away_team,
                FilledIn(args.standings,
                         TeamsLookedUp(args.home_team, args.away_team, args.all_games),
                         NeutralStanding),
                args.all_games,
                FilledIn(args.team_forms,
                         TeamsLookedUp(args.home_team, args.away_team, args.all_games),
                         NeutralForm),
                args.n_similar, args.min_similarity)
    /\ (Called("get_team_recent_form")
            /\ \A i \in 1..Len(args.all_games) :
                    args.team \notin {args.all_games[i].home_team,
                                      args.all_games[i].away_team}) =>
        /\ Returned(ret)
        /\ ret.value.win_pct = Half
        /\ ret.value.avg_gf = RInt(3)
        /\ ret.value.avg_ga = RInt(3)
    /\ Called("blend_model_and_market") =>
        /\ Returned(ret)
        /\ ret.value = blend_model_and_market(args.model_probs,
                            MarketFilledIn(args.market_probs), args.model_weight)

\* a search over games of teams that standings and team_forms do not list,
\* which still selects a game
C22_Witness ==
    /\ FindCalled
    /\ args.standings = <<>>
    /\ args.team_forms = <<>>
    /\ Returned(ret)
    /\ ret.value # <<>>

----------------------------------------------------------------------------
(* blend_model_and_market: the weights *)

BlendCalled == Called("blend_model_and_market")

\* the weight the claim states: model_weight * confidence (0 when absent)
StatedWeight == RMul(args.model_weight, Get(args.model_probs, "confidence", Zero))

\* v lies between a and b
Between(v, a, b) == RLe(RMin(a, b), v) /\ RLe(v, RMax(a, b))

\* one blended value as the claim states it
BlendedAsStated(blended, model_value, market_value) ==
    /\ blended = RAdd(RMul(StatedWeight, model_value),
                      RMul(RSub(One, StatedWeight), market_value))
    /\ Between(blended, model_value, market_value)
    /\ Get(args.model_probs, "confidence", Zero) = Zero => blended = market_value

\* C23: blend_model_and_market uses effective_weight = model_weight *
\* confidence and returns, for home_win_prob, over_prob and home_cover_prob,
\* effective_weight * model + (1 - effective_weight) * market (market 0.5 when
\* missing); with confidence 0 the blended value is the market value, each
\* blended value lies between the model and the market value, and
\* effective_model_weight is the weight used.
C23_BlendWeights ==
    BlendCalled =>
        /\ Returned(ret)
        /\ ret.value.effective_model_weight = StatedWeight
        /\ BlendedAsStated(ret.value.home_win_prob, args.model_probs.home_win_prob,
                           Get(args.market_probs, "home_win_prob", Half))
        /\ BlendedAsStated(ret.value.over_prob, args.model_probs.over_prob,
                           Get(args.market_probs, "over_prob", Half))
        /\ BlendedAsStated(ret.value.home_cover_prob,
                           Get(args.model_probs, "home_cover_prob", Half),
                           Get(args.market_probs, "spread_home_cover_prob", Half))

\* a blend with a weight strictly between 0 and 1 of a model value and a
\* market value that differ, ending strictly between them
C23_Witness ==
    /\ BlendCalled
    /\ RLt(Zero, StatedWeight)
    /\ RLt(StatedWeight, One)
    /\ "home_win_prob" \in DOMAIN args.market_probs
    /\ args.model_probs.home_win_prob # args.market_probs.home_win_prob
    /\ ret.value.home_win_prob # args.model_probs.home_win_prob
    /\ ret.value.home_win_prob # args.market_probs.home_win_prob

----------------------------------------------------------------------------
(* evaluate_all_bets: completeness of acceptance *)

\* the edge of a best-price entry at the probability p
EdgeAt(entry, p) == RSub(p, ImpliedOf(Val(entry).price))

\* a priced side whose edge lies within the bounds is among the candidates
SideListed(bet_type, pick, entry, p) ==
    (/\ IsSet(entry)
     /\ RLe(ArgEffMinEdge, EdgeAt(entry, p))
     /\ RLe(EdgeAt(entry, p), args.max_edge)) =>
        \E i \in 1..Len(ReturnedBets) :
            /\ ReturnedBets[i].bet_type = bet_type
            /\ ReturnedBets[i].pick = pick
            /\ ReturnedBets[i].book = Val(entry).book
            /\ ReturnedBets[i].odds = Val(entry).price
            /\ ReturnedBets[i].edge = EdgeAt(entry, p)

\* the gate is open and the stake is positive
EvalOpen ==
    /\ EvalCalled
    /\ RLe(args.min_confidence, ArgConfidence)
    /\ RLt(Zero, args.stake)

\* C24: with model_confidence >= min_confidence (and a positive stake),
\* every side that has a best price - moneyline home/away, total over/under,
\* and spread home/away when conservative is off - and whose edge at the
\* matching blended probability lies within [effective min_edge, max_edge]
\* is among the candidates evaluate_all_bets returns.
C24_AcceptanceComplete ==
    EvalOpen =>
        LET bp == args.blended_probs
            bo == args.best_odds
        IN  /\ Returned(ret)
            /\ SideListed("Moneyline", Pick(args.home_team, "ML", None),
                          bo.moneyline.home, bp.home_win_prob)
            /\ SideListed("Moneyline", Pick(args.away_team, "ML", None),
                          bo.moneyline.away, bp.away_win_prob)
            /\ SideListed("Total", Pick("Over", "total", bo.total.over),
                          bo.total.over, bp.over_prob)
            /\ SideListed("Total", Pick("Under", "total", bo.total.under),
                          bo.total.under, bp.under_prob)
            /\ ~args.conservative =>
                /\ SideListed("Spread", Pick(args.home_team, "spread", bo.spread.home),
                              bo.spread.home, bp.home_cover_prob)
                /\ SideListed("Spread", Pick(args.away_team, "spread", bo.spread.away),
                              bo.spread.away, bp.away_cover_prob)

\* bounds 0.02 and 0.15: a side with edge 0.10 and a side with edge exactly
\* 0.15 are both listed
C24_Witness ==
    /\ EvalOpen
    /\ args.min_edge = R(2, 100)
    /\ args.max_edge = R(15, 100)
    /\ \E i \in 1..Len(ReturnedBets) : ReturnedBets[i].edge = R(1, 10)
    /\ \E i \in 1..Len(ReturnedBets) :
        ReturnedBets[i].edge = R(15, 100) /\ ReturnedBets[i].pick.label = "ML"

----------------------------------------------------------------------------
(* estimate_probabilities: the over probability *)

\* the indices of the listed games whose total is above / on the line
OverAt(sg, line) == {i \in 1..Len(sg) : RLt(line, RInt(sg[i][1].total_goals))}
PushAt(sg, line) == {i \in 1..Len(sg) : RInt(sg[i][1].total_goals) = line}

\* the sum of similarity squared over the games at the indices given
WeightOf(sg, indices) ==
    SumSeq([i \in 1..Len(sg) |->
                IF i \in indices THEN RMul(sg[i][2], sg[i][2]) ELSE Zero])

\* C25: for a non-empty list, without a total_line the line used is
\* expected_total rounded to the nearest 0.5 and raw over_prob is
\* (games over the line + half the games on it) / number of games,
\* unweighted; with a total_line raw over_prob is the similarity-squared
\* weighted share of the games over the line, a game on the line counting
\* half its weight.
C25_OverProbability ==
    (EstimateCalled /\ args.similar_games # <<>>) =>
        LET sg == args.similar_games
        IN  IF args.total_line = None
            THEN LET line == Val(ret.value.total_line)
                 IN  /\ line.d \in {1, 2}
                     /\ RLe(RAbs(RSub(line, ret.value.expected_total)), R(1, 4))
                     /\ ret.value.raw_over_prob =
                            R(2 * Cardinality(OverAt(sg, line))
                                + Cardinality(PushAt(sg, line)), 2 * Len(sg))
            ELSE LET line == Val(args.total_line)
                     all == WeightOf(sg, 1..Len(sg))
                 IN  /\ ret.value.total_line = args.total_line
                     /\ all # Zero =>
                            ret.value.raw_over_prob =
                                RDiv(RAdd(WeightOf(sg, OverAt(sg, line)),
                                          RMul(Half, WeightOf(sg, PushAt(sg, line)))),
                                     all)

\* no line given: a game on the derived line and a game over it that has no
\* weight at all, counted as one half and one of two games
C25_Witness ==
    /\ EstimateCalled
    /\ args.total_line = None
    /\ Len(args.similar_games) = 2
    /\ args.similar_games[2][2] = Zero
    /\ Cardinality(PushAt(args.similar_games, Val(ret.value.total_line))) = 1
    /\ ret.value.raw_over_prob = R(3, 4)

----------------------------------------------------------------------------
(* get_best_odds: the best price of each side *)

OddsCalled == Called("get_best_odds")

\* the quotes of a side: <<book, outcome>> of every listed outcome of the
\* market that carries the side's name
QuotesOf(market, name) ==
    LET bks == args.game_data.bookmakers
    IN  {<<bks[i][1], bks[i][2].markets[market][j]>> :
            <<i, j>> \in {<<i, j>> \in (1..Len(bks)) \X (1..2) :
                            /\ market \in DOMAIN bks[i][2].markets
                            /\ j <= Len(bks[i][2].markets[market])
                            /\ bks[i][2].markets[market][j].name = name}}

\* the entry recorded for a side is the best of its quotes
BestOfQuotes(entry, market, name) ==
    IF QuotesOf(market, name) = {} THEN entry = None
    ELSE /\ IsSet(entry)
         /\ \A q \in QuotesOf(market, name) :
                RLe(DecimalOf(q[2].price), DecimalOf(Val(entry).price))
         /\ \E q \in QuotesOf(market, name) :
                /\ q[1] = Val(entry).book
                /\ q[2].price = Val(entry).price
                /\ market # "h2h" => q[2].point = Val(entry).point

\* C26: for each side (moneyline home/away, spread home/away, total
\* over/under) get_best_odds records a price no bookmaker beats in decimal
\* odds, the book recorded is one that offered that price, for spread and
\* total the point recorded is the point of that book's outcome, and a side
\* nobody quotes stays None.
C26_BestPricePerSide ==
    OddsCalled =>
        LET gd == args.game_data
            best == ret.value
        IN  /\ BestOfQuotes(best.moneyline.home, "h2h", gd.home_team)
            /\ BestOfQuotes(best.moneyline.away, "h2h", gd.away_team)
            /\ BestOfQuotes(best.spread.home, "spreads", gd.home_team)
            /\ BestOfQuotes(best.spread.away, "spreads", gd.away_team)
            /\ BestOfQuotes(best.total.over, "totals", "Over")
            /\ BestOfQuotes(best.total.under, "totals", "Under")

\* three bookmakers: the best home moneyline is the first book's although a
\* later book quotes the side, and nobody quotes the puck line
C26_Witness ==
    /\ OddsCalled
    /\ Len(args.game_data.bookmakers) = 3
    /\ IsSet(ret.value.moneyline.home)
    /\ Val(ret.value.moneyline.home).book = args.game_data.bookmakers[1][1]
    /\ Cardinality(QuotesOf("h2h", args.game_data.home_team)) >= 2
    /\ args.game_data.bookmakers[3][1] = "pinnacle"
    /\ ret.value.spread.home = None

----------------------------------------------------------------------------
(* run_analysis: the line a candidate is priced at *)

RunCalled == op = "run_analysis"

\* -x of an optional number
Negated(line) == IF line = None THEN None ELSE Some(RSub(Zero, Val(line)))

\* the candidate is priced at the line the analysis of its game estimated
\* the probability for
AtEstimatedLine(bet, analysis) ==
    /\ bet.bet_type = "Total" => bet.pick.point = analysis.model_probs.total_line
    /\ bet.bet_type = "Spread" =>
            bet.pick.point = IF bet.pick.subject = analysis.home
                             THEN analysis.model_probs.spread_line
                             ELSE Negated(analysis.model_probs.spread_line)

\* C27: every Total and Spread candidate of run_analysis carries the line
\* its probability was estimated for: the point of an Over or Under
\* candidate is the total line passed to estimate_probabilities, the point
\* of a home-spread candidate the spread line passed and that of an
\* away-spread candidate its negation.
C27_PricedAtEstimatedLine ==
    RunCalled =>
        \A i \in 1..Len(run.all_bets) :
            \A k \in 1..Len(run.game_analyses) :
                run.game_analyses[k].game = run.all_bets[i].game =>
                    AtEstimatedLine(run.all_bets[i], run.game_analyses[k])

----------------------------------------------------------------------------
(* evaluate_all_bets: one candidate per moneyline side, bookmaker and price *)

\* two candidates for the same moneyline bet: same game, side, book and price
SameMoneylineBet(a, b) ==
    /\ a.bet_type = "Moneyline"
    /\ b.bet_type = "Moneyline"
    /\ a.game = b.game
    /\ a.pick.subject = b.pick.subject
    /\ a.book = b.book
    /\ a.odds = b.odds

\* C28: the candidates of a game hold at most one candidate per moneyline
\* side, bookmaker and price; a best moneyline price held by theScore is not
\* listed a second time as the theScore-specific candidate.
C28_NoMoneylineListedTwice ==
    (RunCalled /\ pc = "odds_loop") =>
        \A i, j \in 1..Len(run.game_bets) :
            SameMoneylineBet(run.game_bets[i], run.game_bets[j]) => i = j

----------------------------------------------------------------------------
(* The confidence gate under the default thresholds *)

\* the confidence estimate_probabilities gives the list a similarity search
\* returned
ConfidenceOfFound == Confidence(ret.value, args.home_team, args.away_team)

\* the blended record of an estimate with that confidence
BlendedOfFound ==
    blend_model_and_market([home_win_prob |-> Half, over_prob |-> Half,
                            confidence |-> ConfidenceOfFound],
                           <<>>, DefaultModelWeight)

\* C29: a non-empty list returned by find_similar_games with min_similarity
\* 0.55 gives estimate_probabilities a confidence of at least 0.55 * 0.55 =
\* 0.3025, so with the default min_confidence 0.3 the gate of
\* evaluate_all_bets stays open for the blended record of that estimate.
C29_GateOpenWhenGamesFound ==
    (FindCalled /\ args.min_similarity = DefaultMinSimilarity /\ ret.value # <<>>) =>
        /\ RLe(R(3025, 10000), ConfidenceOfFound)
        /\ ~GateClosed(BlendedOfFound, DefaultMinConfidence)

\* a search at the default threshold that finds a game of similarity below
\* 0.6 and nothing to raise the confidence above 0.35
C29_Witness ==
    /\ FindCalled
    /\ args.min_similarity = DefaultMinSimilarity
    /\ ret.value # <<>>
    /\ RLt(ret.value[Len(ret.value)][2], R(6, 10))
    /\ RLt(ConfidenceOfFound, R(35, 100))

----------------------------------------------------------------------------
(* run_analysis: a failed odds fetch, and matchups outside the standings *)

\* the odds were asked for and fetching or parsing them raised
FetchFailed == RunCalled /\ args.use_odds /\ ~run.use_odds

\* both teams of a scheduled game are in the standings
InStandings(game) ==
    game.home_team \in DOMAIN run.standings /\ game.away_team \in DOMAIN run.standings

\* the scheduled games of both teams in the standings, each with the
\* estimate made from its similar games, in schedule order
ScheduledAnalyses(games) ==
    LET kept == SelectSeq(games, InStandings)
    IN  [i \in 1..Len(kept) |->
            [game |-> GameLabel(kept[i].away_team, kept[i].home_team),
             home |-> kept[i].home_team, away |-> kept[i].away_team,
             model_probs |->
                estimate_probabilities(
                    find_similar_games(kept[i].home_team, kept[i].away_team,
                                       run.standings, run.all_games, run.team_forms,
                                       args.n_similar, DefaultMinSimilarity),
                    kept[i].home_team, kept[i].away_team, None, None)]]

\* both teams of an entry of the odds feed are in the standings
FeedInStandings(game_data) ==
    /\ team_name_to_abbrev(game_data.home_team) \in DOMAIN run.standings
    /\ team_name_to_abbrev(game_data.away_team) \in DOMAIN run.standings

\* the loop over the odds feed was taken: "if use_odds and odds_games"
WithOdds == run.use_odds /\ run.odds_games # <<>>

====
